---------------------------- MODULE Spec2Model ----------------------------
(***************************************************************************)
(* A model of the EBML library: the variable-width integer (Size), the     *)
(* element Id built on it, the standard element Ids and the peekable       *)
(* reader the two are loaded from.                                         *)
(*                                                                         *)
(* TLC's integers are 32 bits wide, the library's are up to 64: a u64 is   *)
(* modelled as its eight bytes, most significant first (a Word).  The      *)
(* narrower unsigned types are Words whose upper bytes are zero.           *)
(***************************************************************************)
EXTENDS Integers, Sequences, FiniteSets, TLC

VARIABLES
    data,     \* the native integer handed to a conversion or constructor
    ret,      \* the last call: its name, its argument and what it returned
    buf,      \* PeekableReader.buf: the look-ahead window
    source,   \* PeekableReader.source: the bytes not yet pulled into buf
    loaded,   \* the Sizes returned by Size::load so far, oldest first
    cmp       \* the last comparison of two loaded Sizes

codecVars == <<data>>
readerVars == <<buf, source, loaded, cmp>>
vars == <<data, ret, buf, source, loaded, cmp>>

----------------------------------------------------------------------------
(* Bounds of the model. *)

\* Inputs lie within Radius of each 2^n - 1, n in 0..64.
Radius == 2
\* A source holds at most MaxVints encoded integers ...
MaxVints == 2
\* ... of which at most MaxCut trailing bytes are missing.
MaxCut == 1

----------------------------------------------------------------------------
(* Bytes and words. *)

Byte == 0..255
None == [tag |-> "None"]
Some(v) == [tag |-> "Some", v |-> v]

RECURSIVE BitAnd(_, _)
BitAnd(a, b) ==
    IF a = 0 \/ b = 0 THEN 0
    ELSE 2 * BitAnd(a \div 2, b \div 2) + (IF a % 2 = 1 /\ b % 2 = 1 THEN 1 ELSE 0)

RECURSIVE BitOr(_, _)
BitOr(a, b) ==
    IF a = 0 THEN b
    ELSE IF b = 0 THEN a
    ELSE 2 * BitOr(a \div 2, b \div 2) + (IF a % 2 = 1 \/ b % 2 = 1 THEN 1 ELSE 0)

RECURSIVE BitLen8(_)
BitLen8(b) == IF b = 0 THEN 0 ELSE 1 + BitLen8(b \div 2)

\* u8::leading_zeros
LeadingZeros8(b) == 8 - BitLen8(b)

ZeroWord == <<0, 0, 0, 0, 0, 0, 0, 0>>
Hex32(b3, b2, b1, b0) == <<0, 0, 0, 0, b3, b2, b1, b0>>
Hex64(b7, b6, b5, b4, b3, b2, b1, b0) == <<b7, b6, b5, b4, b3, b2, b1, b0>>

\* The word whose i-th byte is f[i], as a tuple.
Word(f) == <<f[1], f[2], f[3], f[4], f[5], f[6], f[7], f[8]>>

\* The number of significant bits of a word.
BitLen(w) ==
    IF w = ZeroWord THEN 0
    ELSE LET i == CHOOSE k \in 1..8 : w[k] # 0 /\ \A j \in 1..(k - 1) : w[j] = 0
         IN  (8 - i) * 8 + BitLen8(w[i])

\* uN::leading_zeros of a value of type uN (bits = N).
LeadingZeros(w, bits) == bits - BitLen(w)

\* (w >> n) as u8, n a multiple of 8.
ShrAsU8(w, n) == w[8 - (n \div 8)]

\* w as u32, w as u16, w as u8: truncation to the low bytes.
AsU32(w) == Word([i \in 1..8 |-> IF i <= 4 THEN 0 ELSE w[i]])
AsU16(w) == Word([i \in 1..8 |-> IF i <= 6 THEN 0 ELSE w[i]])
AsU8(w) == Word([i \in 1..8 |-> IF i <= 7 THEN 0 ELSE w[i]])

\* a & b on words.
AndWord(a, b) == Word([i \in 1..8 |-> BitAnd(a[i], b[i])])

\* The order of two words as numbers (u64::partial_cmp, always Some).
RECURSIVE CmpFrom(_, _, _)
CmpFrom(a, b, i) ==
    IF i > 8 THEN "Equal"
    ELSE IF a[i] < b[i] THEN "Less"
    ELSE IF a[i] > b[i] THEN "Greater"
    ELSE CmpFrom(a, b, i + 1)

CmpWord(a, b) == CmpFrom(a, b, 1)
Lt(a, b) == CmpWord(a, b) = "Less"
Ge(a, b) == ~Lt(a, b)
Le(a, b) == CmpWord(a, b) # "Greater"

\* w + b * 256^k, wrapping at 2^64 (k counts bytes from the least significant).
RECURSIVE AddByteAt(_, _, _)
AddByteAt(w, k, b) ==
    IF b = 0 \/ k > 7 THEN w
    ELSE LET s == w[8 - k] + b
         IN  AddByteAt([w EXCEPT ![8 - k] = s % 256], k + 1, s \div 256)

\* w - 1, wrapping at zero.
RECURSIVE DecFrom(_, _)
DecFrom(w, k) ==
    IF k > 7 THEN w
    ELSE IF w[8 - k] > 0 THEN [w EXCEPT ![8 - k] = @ - 1]
    ELSE DecFrom([w EXCEPT ![8 - k] = 255], k + 1)

RECURSIVE Pow2(_)
Pow2(n) == IF n = 0 THEN 1 ELSE 2 * Pow2(n - 1)

\* 2^n - 1 as a word, n in 0..64.
Pow2Minus1(n) ==
    Word([i \in 1..8 |->
            IF 8 * (8 - i) >= n THEN 0
            ELSE IF 8 * (9 - i) <= n THEN 255
            ELSE Pow2(n - 8 * (8 - i)) - 1])

RECURSIVE Offset(_, _)
Offset(w, d) ==
    IF d = 0 THEN w
    ELSE IF d > 0 THEN Offset(AddByteAt(w, 0, 1), d - 1)
    ELSE Offset(DecFrom(w, 0), d + 1)

----------------------------------------------------------------------------
(* size.rs: Size *)

UNKNOWN_HEAD_VALUES == <<\hFF, \h7F, \h3F, \h1F, \h0F, \h07, \h03, \h01>>
HEAD_MASK_VALUES == <<\h7F, \h3F, \h1F, \h0F, \h07, \h03, \h01, \h00>>

NoTail == <<0, 0, 0, 0, 0, 0, 0>>
MkSize(head, tail) == [head |-> head, tail |-> tail]

UNKNOWN_SIZE == MkSize(\hFF, NoTail)

get_width(s) == LeadingZeros8(s.head) + 1

\* The loop of get_value: value += mantissa * tail[tail_len - 1 - i]; mantissa <<= 8.
RECURSIVE TailValue(_, _, _, _)
TailValue(s, tail_len, i, value) ==
    IF i >= tail_len THEN value
    ELSE TailValue(s, tail_len, i + 1, AddByteAt(value, i, s.tail[tail_len - i]))

\* get_value that takes the head alone as the sign of the unknown size.
get_value_HeadOnly(s) ==
    LET tail_len == LeadingZeros8(s.head)
    IN  IF tail_len > 7 THEN [tag |-> "Panic"]
        ELSE IF s.head = UNKNOWN_HEAD_VALUES[tail_len + 1]
        THEN None
        ELSE Some(AddByteAt(TailValue(s, tail_len, 0, ZeroWord), tail_len,
                            BitAnd(s.head, HEAD_MASK_VALUES[tail_len + 1])))

\* Size::get_value.  A head of 0 indexes tail[..8] and UNKNOWN_HEAD_VALUES[8]:
\* both are out of bounds, and the call panics.
get_value(s) ==
    LET tail_len == LeadingZeros8(s.head)
    IN  IF tail_len > 7 THEN [tag |-> "Panic"]
        ELSE IF (\A i \in 1..tail_len : s.tail[i] = \hFF)
                /\ s.head = UNKNOWN_HEAD_VALUES[tail_len + 1]
        THEN None
        ELSE Some(AddByteAt(TailValue(s, tail_len, 0, ZeroWord), tail_len,
                            BitAnd(s.head, HEAD_MASK_VALUES[tail_len + 1])))

\* From<u8> without the test for the reserved 0x7F.
From_u8_NoReserved(d) ==
    LET log == 8 - LeadingZeros(d, 8)
    IN  IF log > 7
        THEN MkSize(\h40, <<ShrAsU8(d, 0), 0, 0, 0, 0, 0, 0>>)
        ELSE MkSize(BitOr(\h80, ShrAsU8(d, 0)), NoTail)

\* impl From<u8> for Size
From_u8(d) ==
    LET log == 8 - LeadingZeros(d, 8)
    IN  IF log > 7 \/ d = Hex32(0, 0, 0, \h7F)
        THEN MkSize(\h40, <<ShrAsU8(d, 0), 0, 0, 0, 0, 0, 0>>)
        ELSE MkSize(BitOr(\h80, ShrAsU8(d, 0)), NoTail)

\* From<u16> that leaves width 2 one bit early.
From_u16_Wide(d) ==
    LET log == 16 - LeadingZeros(d, 16)
    IN  IF log > 13 \/ d = Hex32(0, 0, \h3F, \hFF)
        THEN MkSize(\h20, <<ShrAsU8(d, 8), ShrAsU8(d, 0), 0, 0, 0, 0, 0>>)
        ELSE IF log > 7 \/ d = Hex32(0, 0, 0, \h7F)
        THEN MkSize(BitOr(\h40, ShrAsU8(d, 8)), <<ShrAsU8(d, 0), 0, 0, 0, 0, 0, 0>>)
        ELSE From_u8(AsU8(d))

\* impl From<u16> for Size
From_u16(d) ==
    LET log == 16 - LeadingZeros(d, 16)
    IN  IF log > 14 \/ d = Hex32(0, 0, \h3F, \hFF)
        THEN MkSize(\h20, <<ShrAsU8(d, 8), ShrAsU8(d, 0), 0, 0, 0, 0, 0>>)
        ELSE IF log > 7 \/ d = Hex32(0, 0, 0, \h7F)
        THEN MkSize(BitOr(\h40, ShrAsU8(d, 8)), <<ShrAsU8(d, 0), 0, 0, 0, 0, 0, 0>>)
        ELSE From_u8(AsU8(d))

\* impl From<u32> for Size
From_u32(d) ==
    LET log == 32 - LeadingZeros(d, 32)
    IN  IF log > 28 \/ d = Hex32(\h0F, \hFF, \hFF, \hFF)
        THEN MkSize(\h08, <<ShrAsU8(d, 24), ShrAsU8(d, 16), ShrAsU8(d, 8),
                            ShrAsU8(d, 0), 0, 0, 0>>)
        ELSE IF log > 21 \/ d = Hex32(0, \h1F, \hFF, \hFF)
        THEN MkSize(BitOr(\h10, ShrAsU8(d, 24)),
                    <<ShrAsU8(d, 16), ShrAsU8(d, 8), ShrAsU8(d, 0), 0, 0, 0, 0>>)
        ELSE IF log > 14 \/ d = Hex32(0, 0, \h3F, \hFF)
        THEN MkSize(BitOr(\h20, ShrAsU8(d, 16)),
                    <<ShrAsU8(d, 8), ShrAsU8(d, 0), 0, 0, 0, 0, 0>>)
        ELSE From_u16(AsU16(d))

\* from_u64 without the test for the reserved 2^56 - 1.
from_u64_NoLimit(d) ==
    LET log == 64 - LeadingZeros(d, 64)
    IN  IF log > 56
        THEN None
        ELSE IF log > 49 \/ d = Hex64(0, \h01, \hFF, \hFF, \hFF, \hFF, \hFF, \hFF)
        THEN Some(MkSize(\h01, <<ShrAsU8(d, 48), ShrAsU8(d, 40), ShrAsU8(d, 32),
                                 ShrAsU8(d, 24), ShrAsU8(d, 16), ShrAsU8(d, 8),
                                 ShrAsU8(d, 0)>>))
        ELSE IF log > 42 \/ d = Hex64(0, 0, \h03, \hFF, \hFF, \hFF, \hFF, \hFF)
        THEN Some(MkSize(BitOr(\h02, ShrAsU8(d, 48)),
                         <<ShrAsU8(d, 40), ShrAsU8(d, 32), ShrAsU8(d, 24),
                           ShrAsU8(d, 16), ShrAsU8(d, 8), ShrAsU8(d, 0), 0>>))
        ELSE IF log > 35 \/ d = Hex64(0, 0, 0, \h07, \hFF, \hFF, \hFF, \hFF)
        THEN Some(MkSize(BitOr(\h04, ShrAsU8(d, 40)),
                         <<ShrAsU8(d, 32), ShrAsU8(d, 24), ShrAsU8(d, 16),
                           ShrAsU8(d, 8), ShrAsU8(d, 0), 0, 0>>))
        ELSE IF log > 28 \/ d = Hex64(0, 0, 0, 0, \h0F, \hFF, \hFF, \hFF)
        THEN Some(MkSize(BitOr(\h08, ShrAsU8(d, 32)),
                         <<ShrAsU8(d, 24), ShrAsU8(d, 16), ShrAsU8(d, 8),
                           ShrAsU8(d, 0), 0, 0, 0>>))
        ELSE Some(From_u32(AsU32(d)))

\* Size::from_u64
from_u64(d) ==
    LET log == 64 - LeadingZeros(d, 64)
    IN  IF log > 56 \/ d = Hex64(0, \hFF, \hFF, \hFF, \hFF, \hFF, \hFF, \hFF)
        THEN None
        ELSE IF log > 49 \/ d = Hex64(0, \h01, \hFF, \hFF, \hFF, \hFF, \hFF, \hFF)
        THEN Some(MkSize(\h01, <<ShrAsU8(d, 48), ShrAsU8(d, 40), ShrAsU8(d, 32),
                                 ShrAsU8(d, 24), ShrAsU8(d, 16), ShrAsU8(d, 8),
                                 ShrAsU8(d, 0)>>))
        ELSE IF log > 42 \/ d = Hex64(0, 0, \h03, \hFF, \hFF, \hFF, \hFF, \hFF)
        THEN Some(MkSize(BitOr(\h02, ShrAsU8(d, 48)),
                         <<ShrAsU8(d, 40), ShrAsU8(d, 32), ShrAsU8(d, 24),
                           ShrAsU8(d, 16), ShrAsU8(d, 8), ShrAsU8(d, 0), 0>>))
        ELSE IF log > 35 \/ d = Hex64(0, 0, 0, \h07, \hFF, \hFF, \hFF, \hFF)
        THEN Some(MkSize(BitOr(\h04, ShrAsU8(d, 40)),
                         <<ShrAsU8(d, 32), ShrAsU8(d, 24), ShrAsU8(d, 16),
                           ShrAsU8(d, 8), ShrAsU8(d, 0), 0, 0>>))
        ELSE IF log > 28 \/ d = Hex64(0, 0, 0, 0, \h0F, \hFF, \hFF, \hFF)
        THEN Some(MkSize(BitOr(\h08, ShrAsU8(d, 32)),
                         <<ShrAsU8(d, 24), ShrAsU8(d, 16), ShrAsU8(d, 8),
                           ShrAsU8(d, 0), 0, 0, 0>>))
        ELSE Some(From_u32(AsU32(d)))

\* impl PartialOrd for Size
partial_cmp(self, other) ==
    LET self_val == get_value(self)
        other_val == get_value(other)
    IN  IF self_val.tag = "Some"
        THEN IF other_val.tag = "Some"
             THEN Some(CmpWord(self_val.v, other_val.v))
             ELSE None
        ELSE None

\* The equality #[derive(PartialEq)] would give: field by field.
eq_Derived(self, other) == self.head = other.head /\ self.tail = other.tail

\* impl PartialEq for Size
eq(self, other) ==
    LET other_val == get_value(other)
        self_val == get_value(self)
    IN  IF self_val.tag = "Some"
        THEN IF other_val.tag = "Some"
             THEN self_val.v = other_val.v
             ELSE FALSE
        ELSE other_val.tag = "None"

----------------------------------------------------------------------------
(* id.rs: Id, a Size restricted to widths 1..4 and to a range per width. *)

MkId(size) == [data |-> size]

\* Id::new_class_a (data: u8)
new_class_a(d) ==
    IF d = ZeroWord \/ Ge(d, Hex32(0, 0, 0, \h7F)) THEN None
    ELSE Some(MkId(From_u8(d)))

\* Id::new_class_b (data: u16)
new_class_b(d) ==
    IF Lt(d, Hex32(0, 0, 0, \h7F)) \/ Ge(d, Hex32(0, 0, \h3F, \hFF)) THEN None
    ELSE Some(MkId(From_u16(d)))

\* new_class_c that lets the reserved 0x1F_FFFF through.
new_class_c_Inclusive(d) ==
    IF Lt(d, Hex32(0, 0, \h3F, \hFF)) \/ ~Le(d, Hex32(0, \h1F, \hFF, \hFF)) THEN None
    ELSE Some(MkId(From_u32(d)))

\* Id::new_class_c (data: u32)
new_class_c(d) ==
    IF Lt(d, Hex32(0, 0, \h3F, \hFF)) \/ Ge(d, Hex32(0, \h1F, \hFF, \hFF)) THEN None
    ELSE Some(MkId(From_u32(d)))

\* Id::new_class_d (data: u32)
new_class_d(d) ==
    IF Lt(d, Hex32(0, \h1F, \hFF, \hFF)) \/ Ge(d, Hex32(\h0F, \hFF, \hFF, \hFF)) THEN None
    ELSE Some(MkId(From_u32(d)))

\* from_encoded that leaves the class B marker bit in the value.
from_encoded_NoStrip(d) ==
    IF Ge(d, Hex32(0, 0, 0, \h80)) /\ Le(d, Hex32(0, 0, 0, \hFE))
    THEN new_class_a(AsU8(AndWord(d, Hex32(0, 0, 0, \h7F))))
    ELSE IF Ge(d, Hex32(0, 0, \h40, 0)) /\ Le(d, Hex32(0, 0, \h7F, \hFF))
    THEN new_class_b(AsU16(AndWord(d, Hex32(0, 0, \h7F, \hFF))))
    ELSE IF Ge(d, Hex32(0, \h20, 0, 0)) /\ Le(d, Hex32(0, \h3F, \hFF, \hFF))
    THEN new_class_c(AndWord(d, Hex32(0, \h1F, \hFF, \hFF)))
    ELSE IF Ge(d, Hex32(\h10, 0, 0, 0)) /\ Le(d, Hex32(\h1F, \hFF, \hFF, \hFF))
    THEN new_class_d(AndWord(d, Hex32(\h0F, \hFF, \hFF, \hFF)))
    ELSE None

\* Id::from_encoded (data: u32)
from_encoded(d) ==
    IF Ge(d, Hex32(0, 0, 0, \h80)) /\ Le(d, Hex32(0, 0, 0, \hFE))
    THEN new_class_a(AsU8(AndWord(d, Hex32(0, 0, 0, \h7F))))
    ELSE IF Ge(d, Hex32(0, 0, \h40, 0)) /\ Le(d, Hex32(0, 0, \h7F, \hFF))
    THEN new_class_b(AsU16(AndWord(d, Hex32(0, 0, \h3F, \hFF))))
    ELSE IF Ge(d, Hex32(0, \h20, 0, 0)) /\ Le(d, Hex32(0, \h3F, \hFF, \hFF))
    THEN new_class_c(AndWord(d, Hex32(0, \h1F, \hFF, \hFF)))
    ELSE IF Ge(d, Hex32(\h10, 0, 0, 0)) /\ Le(d, Hex32(\h1F, \hFF, \hFF, \hFF))
    THEN new_class_d(AndWord(d, Hex32(\h0F, \hFF, \hFF, \hFF)))
    ELSE None

\* Id::get_width
id_get_width(id) == get_width(id.data)

\* #[derive(PartialEq)] on Id: the equality of the one field.
id_eq(a, b) == eq(a.data, b.data)

----------------------------------------------------------------------------
(* std_elems.rs, std_containers.rs: get_id of the built-in types.  Each is  *)
(* Id::new_class_<c>(<literal>).unwrap().                                   *)

StdTypes ==
    { [name |-> "EbmlVersion", class |-> "b", lit |-> Hex32(0, 0, \h42, \h86)],
      [name |-> "EbmlReadVersion", class |-> "b", lit |-> Hex32(0, 0, \h42, \hF7)],
      [name |-> "EbmlMaxIdWidth", class |-> "b", lit |-> Hex32(0, 0, \h42, \hF2)],
      [name |-> "EbmlMaxSizeWidth", class |-> "b", lit |-> Hex32(0, 0, \h42, \hF3)],
      [name |-> "DocType", class |-> "b", lit |-> Hex32(0, 0, \h42, \h82)],
      [name |-> "DocTypeVersion", class |-> "b", lit |-> Hex32(0, 0, \h42, \h87)],
      [name |-> "DocTypeReadVersion", class |-> "b", lit |-> Hex32(0, 0, \h42, \h85)],
      [name |-> "Crc32Value", class |-> "b", lit |-> Hex32(0, 0, \h42, \hFE)],
      [name |-> "Void", class |-> "a", lit |-> Hex32(0, 0, 0, \hEC)],
      [name |-> "EbmlHeader", class |-> "d", lit |-> Hex32(\h0A, \h45, \hDF, \hA3)],
      [name |-> "Crc32Container", class |-> "a", lit |-> Hex32(0, 0, 0, \hC3)] }

\* Option::unwrap: the value of Some, a panic on None.
unwrap(o) == IF o.tag = "Some" THEN [tag |-> "Ok", v |-> o.v] ELSE [tag |-> "Panic"]

get_id(t) ==
    unwrap(CASE t.class = "a" -> new_class_a(t.lit)
             [] t.class = "b" -> new_class_b(t.lit)
             [] t.class = "d" -> new_class_d(t.lit))

----------------------------------------------------------------------------
(* The inputs of the conversions. *)

\* Values the repository's tests use.
TestInputs ==
    { Hex32(0, 0, 0, 4), Hex32(0, 0, 0, 233), Hex32(0, 0, \h0F, \hA0),
      Hex32(0, \h7F, \h02, \h07), Hex32(\h0A, \h45, \hDF, \hA3),
      Hex32(0, 0, \h42, \h86), Hex32(0, 0, 0, \hEC), Hex32(0, 0, 0, \hC3),
      Hex32(\h1A, \h45, \hDF, \hA3), Hex32(0, \h1D, \hB5, \hC3),
      Hex32(\h0C, \h0F, \hFE, \hE0), Hex32(0, 0, \h05, \hA4) }

\* The encoded forms at the ends of each Id class.
EncodedInputs ==
    { Hex32(0, 0, \h40, \h7E), Hex32(0, 0, \h40, \h7F), Hex32(0, 0, \h7F, \hFE),
      Hex32(0, \h20, \h3F, \hFE), Hex32(0, \h20, \h3F, \hFF),
      Hex32(0, \h3F, \hFF, \hFE), Hex32(\h10, \h1F, \hFF, \hFE),
      Hex32(\h10, \h1F, \hFF, \hFF), Hex32(\h1F, \hFF, \hFF, \hFE) }

Inputs ==
    { Offset(Pow2Minus1(n), d) : n \in 0..64, d \in (0 - Radius)..Radius }
        \cup TestInputs \cup EncodedInputs

IsU8(w) == BitLen(w) <= 8
IsU16(w) == BitLen(w) <= 16
IsU32(w) == BitLen(w) <= 32

----------------------------------------------------------------------------
(* The conversions, applied to the drawn input. *)

Call(fn, arg, out) == [fn |-> fn, arg |-> arg, out |-> out]
NoCall == Call("none", ZeroWord, None)

Init ==
    /\ data \in Inputs
    /\ ret = NoCall
    /\ buf = <<>>
    /\ source = <<>>
    /\ loaded = <<>>
    /\ cmp = None

CallFromU64 ==
    /\ ret = NoCall
    /\ ret' = Call("from_u64", data, from_u64(data))
    /\ UNCHANGED <<codecVars, readerVars>>

CallFromU32 ==
    /\ ret = NoCall
    /\ IsU32(data)
    /\ ret' = Call("From_u32", data, Some(From_u32(data)))
    /\ UNCHANGED <<codecVars, readerVars>>

CallFromU16 ==
    /\ ret = NoCall
    /\ IsU16(data)
    /\ ret' = Call("From_u16", data, Some(From_u16(data)))
    /\ UNCHANGED <<codecVars, readerVars>>

CallFromU8 ==
    /\ ret = NoCall
    /\ IsU8(data)
    /\ ret' = Call("From_u8", data, Some(From_u8(data)))
    /\ UNCHANGED <<codecVars, readerVars>>

CallNewClassA ==
    /\ ret = NoCall
    /\ IsU8(data)
    /\ ret' = Call("new_class_a", data, new_class_a(data))
    /\ UNCHANGED <<codecVars, readerVars>>

CallNewClassB ==
    /\ ret = NoCall
    /\ IsU16(data)
    /\ ret' = Call("new_class_b", data, new_class_b(data))
    /\ UNCHANGED <<codecVars, readerVars>>

CallNewClassC ==
    /\ ret = NoCall
    /\ IsU32(data)
    /\ ret' = Call("new_class_c", data, new_class_c(data))
    /\ UNCHANGED <<codecVars, readerVars>>

CallNewClassD ==
    /\ ret = NoCall
    /\ IsU32(data)
    /\ ret' = Call("new_class_d", data, new_class_d(data))
    /\ UNCHANGED <<codecVars, readerVars>>

CallFromEncoded ==
    /\ ret = NoCall
    /\ IsU32(data)
    /\ ret' = Call("from_encoded", data, from_encoded(data))
    /\ UNCHANGED <<codecVars, readerVars>>

CallGetId ==
    /\ ret = NoCall
    /\ \E t \in StdTypes : ret' = Call(t.name, t.lit, get_id(t))
    /\ UNCHANGED <<codecVars, readerVars>>

Next ==
    \/ CallFromU64
    \/ CallFromU32
    \/ CallFromU16
    \/ CallFromU8
    \/ CallNewClassA
    \/ CallNewClassB
    \/ CallNewClassC
    \/ CallNewClassD
    \/ CallFromEncoded
    \/ CallGetId

Spec == Init /\ [][Next]_vars

----------------------------------------------------------------------------
(* peek.rs: PeekableReader over an in-memory source (a Cursor, as in the    *)
(* tests), whose reads never fail.                                          *)

Min(a, b) == IF a < b THEN a ELSE b
Take(q, n) == SubSeq(q, 1, Min(n, Len(q)))
Drop(q, n) == SubSeq(q, Min(n, Len(q)) + 1, Len(q))

Panic == [tag |-> "Panic"]
Ok(v) == [tag |-> "Ok", v |-> v]
Err(e) == [tag |-> "Err", e |-> e]

\* The reader after a call, and what the call returned.
After(out, b, src) == [out |-> out, buf |-> b, source |-> src]

\* PeekableReader::new
new(bytes) == After(Ok("reader"), Take(bytes, 8), Drop(bytes, 8))

\* PeekableReader::peek8
peek8(b) == b

\* advance that skips amount bytes of the source, not amount - 8, when the
\* window is left behind.
advance_SkipAmount(b, src, amount) ==
    IF amount < 8
    THEN IF amount > Len(b)
         THEN After(Panic, b, src)
         ELSE LET nb == Drop(b, amount) \o Take(src, amount)
              IN  After(Ok(Len(nb) < 8), nb, Drop(src, amount))
    ELSE LET nb == Take(Drop(src, amount), 8)
         IN  After(Ok(Len(nb) < 8), nb, Drop(src, amount + 8))

\* advance that reports the end of input only when the window is empty.
advance_EofWhenEmpty(b, src, amount) ==
    IF amount < 8
    THEN IF amount > Len(b)
         THEN After(Panic, b, src)
         ELSE LET nb == Drop(b, amount) \o Take(src, amount)
              IN  After(Ok(Len(nb) = 0), nb, Drop(src, amount))
    ELSE LET nb == Take(Drop(src, amount - 8), 8)
         IN  After(Ok(Len(nb) = 0), nb, Drop(src, amount))

\* PeekableReader::advance.  Vec::split_off(amount) panics when amount exceeds
\* the length of buf.
advance(b, src, amount) ==
    IF amount < 8
    THEN IF amount > Len(b)
         THEN After(Panic, b, src)
         ELSE LET nb == Drop(b, amount) \o Take(src, amount)
              IN  After(Ok(Len(nb) < 8), nb, Drop(src, amount))
    ELSE LET nb == Take(Drop(src, amount - 8), 8)
         IN  After(Ok(Len(nb) < 8), nb, Drop(src, amount))

\* Size::load that advances by the length of the tail, the head forgotten.
load_AdvanceTail(b, src) ==
    IF Len(peek8(b)) = 0 THEN After(Panic, b, src)
    ELSE LET head == peek8(b)[1]
             tail_len == LeadingZeros8(head)
         IN  IF tail_len > 7 \/ 1 + tail_len > Len(peek8(b))
             THEN After(Panic, b, src)
             ELSE LET t(i) == IF i <= tail_len THEN peek8(b)[1 + i] ELSE 0
                      tail == <<t(1), t(2), t(3), t(4), t(5), t(6), t(7)>>
                      adv == advance(b, src, LeadingZeros8(head))
                  IN  IF adv.out.tag = "Ok"
                      THEN After(Ok(MkSize(head, tail)), adv.buf, adv.source)
                      ELSE adv

\* Size::load.  buf[0] on an empty window, buf[1 + i] past the end of the
\* window and tail[7] (a head of 0x00 asks for 8 tail bytes) index out of
\* bounds: the call panics before it advances.
load(b, src) ==
    IF Len(peek8(b)) = 0 THEN After(Panic, b, src)
    ELSE LET head == peek8(b)[1]
             tail_len == LeadingZeros8(head)
         IN  IF tail_len > 7 \/ 1 + tail_len > Len(peek8(b))
             THEN After(Panic, b, src)
             ELSE LET t(i) == IF i <= tail_len THEN peek8(b)[1 + i] ELSE 0
                      tail == <<t(1), t(2), t(3), t(4), t(5), t(6), t(7)>>
                      adv == advance(b, src, 1 + LeadingZeros8(head))
                  IN  IF adv.out.tag = "Ok"
                      THEN After(Ok(MkSize(head, tail)), adv.buf, adv.source)
                      ELSE adv

\* Id::load of ebml/src/id.rs: any Size of width 1..4 is an Id.
Id_load(b, src) ==
    LET r == load(b, src)
    IN  IF r.out.tag # "Ok" THEN r
        ELSE IF get_width(r.out.v) <= 4
        THEN After(Ok(MkId(r.out.v)), r.buf, r.source)
        ELSE After(Err("IdOutOfRange"), r.buf, r.source)

\* Id::load of src/id.rs: the value must also lie in the class of the width.
Id_load_ranged(b, src) ==
    LET r == load(b, src)
    IN  IF r.out.tag # "Ok" THEN r
        ELSE LET size == r.out.v
                 value == get_value(size)
                 w == get_width(size)
             IN  IF value.tag # "Some"
                 THEN After(Err("IdOutOfRange"), r.buf, r.source)
                 ELSE IF \/ w = 1 /\ Lt(ZeroWord, value.v)
                               /\ Lt(value.v, Hex32(0, 0, 0, \h7F))
                         \/ w = 2 /\ Ge(value.v, Hex32(0, 0, 0, \h7F))
                               /\ Lt(value.v, Hex32(0, 0, \h3F, \hFF))
                         \/ w = 3 /\ Ge(value.v, Hex32(0, 0, \h3F, \hFF))
                               /\ Lt(value.v, Hex32(0, \h1F, \hFF, \hFF))
                         \/ w = 4 /\ Ge(value.v, Hex32(0, \h1F, \hFF, \hFF))
                               /\ Lt(value.v, Hex32(\h0F, \hFF, \hFF, \hFF))
                 THEN After(Ok(MkId(size)), r.buf, r.source)
                 ELSE After(Err("IdOutOfRange"), r.buf, r.source)

\* The comparison operators Rust derives from partial_cmp and eq.
Comparison(x, y) ==
    LET ord == partial_cmp(x, y)
    IN  [ lhs |-> x, rhs |-> y,
          eq |-> eq(x, y),
          ne |-> ~eq(x, y),
          lt |-> ord = Some("Less"),
          le |-> ord \in {Some("Less"), Some("Equal")},
          gt |-> ord = Some("Greater"),
          ge |-> ord \in {Some("Greater"), Some("Equal")} ]

----------------------------------------------------------------------------
(* The sources read from. *)

\* The bytes of value v at width w: the low w bytes of v under the marker bit.
Vint(w, v) == [SubSeq(v, 9 - w, 8) EXCEPT ![1] = @ + Pow2(8 - w)]

\* Per width: the largest value of the width and the reserved all-ones; for
\* the widths an Id may have, also the two values around the lower end of the
\* Id class of that width.
VintValues(w) ==
    {Offset(Pow2Minus1(7 * w), 0 - 1), Pow2Minus1(7 * w)}
        \cup (IF w = 1 THEN {ZeroWord, Hex32(0, 0, 0, 1)}
              ELSE IF w <= 4
              THEN {Offset(Pow2Minus1(7 * (w - 1)), 0 - 1), Pow2Minus1(7 * (w - 1))}
              ELSE {})

\* The encoded integers a source is made of, and the byte 0x00, which is the
\* head of none.
Vints == UNION {{Vint(w, v) : v \in VintValues(w)} : w \in 1..8} \cup {<<0>>}

RECURSIVE VintSeqs(_)
VintSeqs(n) ==
    IF n = 0 THEN {<<>>}
    ELSE LET S == VintSeqs(n - 1) IN S \cup {q \o t : q \in S, t \in Vints}

Sources == {Take(q, Len(q) - c) : q \in VintSeqs(MaxVints), c \in 0..MaxCut}

----------------------------------------------------------------------------
(* Reading: PeekableReader::new, then loads and comparisons in any order. *)

Alive == ret.out.tag # "Panic"

InitRead ==
    /\ \E bytes \in Sources :
          /\ buf = new(bytes).buf
          /\ source = new(bytes).source
    /\ data = ZeroWord
    /\ ret = NoCall
    /\ loaded = <<>>
    /\ cmp = None

SizeLoad ==
    /\ Alive
    /\ LET r == load(buf, source)
       IN  /\ ret' = Call("Size::load", peek8(buf), r.out)
           /\ buf' = r.buf
           /\ source' = r.source
           /\ loaded' = IF r.out.tag = "Ok" THEN Append(loaded, r.out.v) ELSE loaded
    /\ UNCHANGED <<codecVars, cmp>>

IdLoad ==
    /\ Alive
    /\ LET r == Id_load(buf, source)
       IN  /\ ret' = Call("Id::load", peek8(buf), r.out)
           /\ buf' = r.buf
           /\ source' = r.source
    /\ UNCHANGED <<codecVars, loaded, cmp>>

IdLoadRanged ==
    /\ Alive
    /\ LET r == Id_load_ranged(buf, source)
       IN  /\ ret' = Call("Id::load (src/id.rs)", peek8(buf), r.out)
           /\ buf' = r.buf
           /\ source' = r.source
    /\ UNCHANGED <<codecVars, loaded, cmp>>

Compare ==
    /\ Alive
    /\ cmp = None
    /\ Len(loaded) >= 2
    /\ cmp' = Some(Comparison(loaded[Len(loaded) - 1], loaded[Len(loaded)]))
    /\ UNCHANGED <<codecVars, ret, buf, source, loaded>>

NextRead ==
    \/ SizeLoad
    \/ IdLoad
    \/ IdLoadRanged
    \/ Compare

SpecRead == InitRead /\ [][NextRead]_vars

----------------------------------------------------------------------------
(* What the claims measure against. *)

Conversions == {"from_u64", "From_u32", "From_u16", "From_u8"}

\* 2^56 - 1, the first value a Size cannot hold.
FirstTooBig == Pow2Minus1(56)

\* v <= 2^(7w) - 2
FitsWidth(v, w) == Lt(v, Pow2Minus1(7 * w))

\* The smallest width in 1..8 that holds v (v <= 2^56 - 2).
MinWidth(v) == CHOOSE w \in 1..8 : FitsWidth(v, w) /\ \A u \in 1..(w - 1) : ~FitsWidth(v, u)

\* The value ranges of the four Id classes, by width.
ClassRange ==
    << [lo |-> Hex32(0, 0, 0, \h01), hi |-> Hex32(0, 0, 0, \h7E)],
       [lo |-> Hex32(0, 0, 0, \h7F), hi |-> Hex32(0, 0, \h3F, \hFE)],
       [lo |-> Hex32(0, 0, \h3F, \hFF), hi |-> Hex32(0, \h1F, \hFF, \hFE)],
       [lo |-> Hex32(0, \h1F, \hFF, \hFF), hi |-> Hex32(\h0F, \hFF, \hFF, \hFE)] >>

InClass(v, w) == Le(ClassRange[w].lo, v) /\ Le(v, ClassRange[w].hi)

ClassFn == <<"new_class_a", "new_class_b", "new_class_c", "new_class_d">>

NewClass(w, d) ==
    CASE w = 1 -> new_class_a(d)
      [] w = 2 -> new_class_b(d)
      [] w = 3 -> new_class_c(d)
      [] w = 4 -> new_class_d(d)

\* e with the marker bit of width w taken off: e - 2^(7w).
Strip(e, w) == [e EXCEPT ![9 - w] = @ - Pow2(8 - w)]

\* e is a w-byte pattern whose highest set bit is the marker of width w and
\* whose value without the marker lies in the class of width w.
ValidEncoded(e, w) == BitLen(e) = 7 * w + 1 /\ InClass(Strip(e, w), w)

\* The bytes an Id is written as, as a number.
EncodedId(id) ==
    LET w == id_get_width(id)
    IN  Word([i \in 1..8 |->
                IF i < 9 - w THEN 0
                ELSE IF i = 9 - w THEN id.data.head
                ELSE id.data.tail[i - (9 - w)]])

\* The fixed Ids of the built-in types, in their encoded form.
FixedId(name) ==
    CASE name = "EbmlHeader" -> Hex32(\h1A, \h45, \hDF, \hA3)
      [] name = "EbmlVersion" -> Hex32(0, 0, \h42, \h86)
      [] name = "EbmlReadVersion" -> Hex32(0, 0, \h42, \hF7)
      [] name = "EbmlMaxIdWidth" -> Hex32(0, 0, \h42, \hF2)
      [] name = "EbmlMaxSizeWidth" -> Hex32(0, 0, \h42, \hF3)
      [] name = "DocType" -> Hex32(0, 0, \h42, \h82)
      [] name = "DocTypeVersion" -> Hex32(0, 0, \h42, \h87)
      [] name = "DocTypeReadVersion" -> Hex32(0, 0, \h42, \h85)
      [] name = "Crc32Container" -> Hex32(0, 0, 0, \hC3)
      [] name = "Crc32Value" -> Hex32(0, 0, \h42, \hFE)
      [] name = "Void" -> Hex32(0, 0, 0, \hEC)

\* The bytes a Size stands for: its head and the tail bytes its width counts.
SizeBytes(s) == <<s.head>> \o Take(s.tail, get_width(s) - 1)

\* The bytes are the reserved all-ones of their width w: the first byte is
\* 0xFF, 0x7F, .., 0x01 and the w - 1 others are 0xFF.
AllOnes(bytes) ==
    /\ bytes[1] = Pow2(9 - Len(bytes)) - 1
    /\ \A i \in 2..Len(bytes) : bytes[i] = \hFF

\* The big-endian value of the data bits: the bytes without the marker bit.
DataBits(bytes) ==
    LET w == Len(bytes)
    IN  Word([i \in 1..8 |->
                IF i < 9 - w THEN 0
                ELSE IF i = 9 - w THEN bytes[1] - Pow2(8 - w)
                ELSE bytes[i - (8 - w)]])

\* What the window holds is no encoded integer: nothing, a first byte of 0x00,
\* or fewer bytes than the first byte announces.
Malformed(window) ==
    \/ Len(window) = 0
    \/ window[1] = 0
    \/ Len(window) < LeadingZeros8(window[1]) + 1

IdLoads == {"Id::load", "Id::load (src/id.rs)"}

----------------------------------------------------------------------------
(* The claims. *)

\* C1: every v in [0, 2^56 - 2] converts to a Size whose get_value() is Some(v),
\* through from_u64 and through From<u8>, From<u16> and From<u32>.
C1_RoundTrip ==
    (ret.fn \in Conversions /\ Lt(ret.arg, FirstTooBig)) =>
        /\ ret.out.tag = "Some"
        /\ get_value(ret.out.v) = Some(ret.arg)

C1_Witness ==
    /\ ret.fn = "from_u64"
    /\ ret.arg = Offset(FirstTooBig, 0 - 1)
    /\ ret.out.tag = "Some"
    /\ get_width(ret.out.v) = 8
    /\ get_value(ret.out.v) = Some(ret.arg)

\* C2: the Size built from v has the smallest width w in 1..8 with
\* v <= 2^(7w) - 2, whichever conversion built it.
C2_MinimalWidth ==
    (ret.fn \in Conversions /\ ret.out.tag = "Some") =>
        get_width(ret.out.v) = MinWidth(ret.arg)

C2_Witness ==
    /\ ret.fn = "From_u16"
    /\ ret.arg = Hex32(0, 0, \h3F, \hFF)
    /\ get_width(ret.out.v) = 3

\* C3: from_u64(v) is None exactly when v >= 2^56 - 1, and a Size it returns is
\* never the unknown size.
C3_RejectsTooBig ==
    ret.fn = "from_u64" =>
        /\ ret.out = None <=> Ge(ret.arg, FirstTooBig)
        /\ ret.out.tag = "Some" => get_value(ret.out.v).tag = "Some"

C3_Witness ==
    /\ ret.fn = "from_u64"
    /\ ret.arg = FirstTooBig
    /\ ret.out = None

\* C4: a Size of width w is unknown (get_value() is None) exactly when all 7w
\* data bits are 1; any other pattern decodes to the big-endian value of its
\* data bits without the marker bit.
C4_UnknownSentinel ==
    (ret.fn = "Size::load" /\ ret.out.tag = "Ok") =>
        LET s == ret.out.v
            bytes == Take(ret.arg, get_width(s))
        IN  /\ get_width(s) \in 1..8
            /\ SizeBytes(s) = bytes
            /\ get_value(s) = None <=> AllOnes(bytes)
            /\ ~AllOnes(bytes) => get_value(s) = Some(DataBits(bytes))

C4_Witness ==
    /\ ret.fn = "Size::load"
    /\ ret.out.tag = "Ok"
    /\ get_width(ret.out.v) = 8
    /\ ret.arg = <<\h01, \hFF, \hFF, \hFF, \hFF, \hFF, \hFF, \hFF>>
    /\ get_value(ret.out.v) = None

\* C5: known Sizes are equal exactly when their values are and are ordered by
\* value, whatever their widths; unknown equals unknown at any width and
\* nothing else; an unknown and a known Size are in none of <, <=, >, >=,
\* either way round.
C5_EqualityAndOrder ==
    cmp.tag = "Some" =>
        LET c == cmp.v
            x == SizeBytes(c.lhs)
            y == SizeBytes(c.rhs)
        IN  /\ (~AllOnes(x) /\ ~AllOnes(y)) =>
                  /\ c.eq <=> DataBits(x) = DataBits(y)
                  /\ c.ne <=> DataBits(x) # DataBits(y)
                  /\ c.lt <=> Lt(DataBits(x), DataBits(y))
                  /\ c.le <=> Le(DataBits(x), DataBits(y))
                  /\ c.gt <=> Lt(DataBits(y), DataBits(x))
                  /\ c.ge <=> Le(DataBits(y), DataBits(x))
            /\ (AllOnes(x) /\ AllOnes(y)) => c.eq /\ ~c.ne
            /\ (AllOnes(x) # AllOnes(y)) =>
                  ~c.eq /\ c.ne /\ ~c.lt /\ ~c.le /\ ~c.gt /\ ~c.ge

C5_Witness ==
    /\ cmp.tag = "Some"
    /\ get_width(cmp.v.lhs) = 1
    /\ get_width(cmp.v.rhs) = 2
    /\ ~AllOnes(SizeBytes(cmp.v.lhs))
    /\ DataBits(SizeBytes(cmp.v.lhs)) = DataBits(SizeBytes(cmp.v.rhs))
    /\ cmp.v.eq
    /\ cmp.v.le
    /\ ~cmp.v.lt

\* C6: Size::load and Id::load return Err, and neither crash nor return a
\* value, when the first byte is 0x00 or fewer bytes are left than the first
\* byte announces (none at all included).
C6_MalformedIsErr ==
    (ret.fn \in {"Size::load"} \cup IdLoads /\ Malformed(ret.arg)) =>
        ret.out.tag = "Err"

\* C8: Id::load returns Ok only for a width of at most 4, a value that is not
\* the unknown size and lies in the class of the width, and Err(IdOutOfRange)
\* for every other encoded integer.
C8_IdLoadRange ==
    (ret.fn \in IdLoads /\ ~Malformed(ret.arg)) =>
        LET bytes == Take(ret.arg, LeadingZeros8(ret.arg[1]) + 1)
            valid == /\ Len(bytes) <= 4
                     /\ ~AllOnes(bytes)
                     /\ InClass(DataBits(bytes), Len(bytes))
        IN  IF valid
            THEN ret.out.tag = "Ok" /\ SizeBytes(ret.out.v.data) = bytes
            ELSE ret.out = Err("IdOutOfRange")

\* C7: new_class_a/b/c/d(v) is Some exactly when v lies in the range of its
\* class, and the Id it returns has the width of the class.
C7_ClassConstructors ==
    \A w \in 1..4 :
        ret.fn = ClassFn[w] =>
            /\ ret.out.tag = "Some" <=> InClass(ret.arg, w)
            /\ ret.out.tag = "Some" => id_get_width(ret.out.v) = w

C7_Witness ==
    /\ ret.fn = "new_class_d"
    /\ ret.arg = Hex32(\h0F, \hFF, \hFF, \hFE)
    /\ ret.out.tag = "Some"
    /\ id_get_width(ret.out.v) = 4

\* C9: from_encoded(e) is Some exactly when e is the encoded form of a valid
\* Id of some width w in 1..4; the Id then equals new_class_<w> of e without its
\* marker bit and has width w.
C9_FromEncoded ==
    ret.fn = "from_encoded" =>
        /\ ret.out.tag = "Some" <=> \E w \in 1..4 : ValidEncoded(ret.arg, w)
        /\ \A w \in 1..4 :
              ValidEncoded(ret.arg, w) =>
                  /\ ret.out.tag = "Some"
                  /\ NewClass(w, Strip(ret.arg, w)).tag = "Some"
                  /\ id_eq(ret.out.v, NewClass(w, Strip(ret.arg, w)).v)
                  /\ id_get_width(ret.out.v) = w
                  /\ EncodedId(ret.out.v) = ret.arg

C9_Witness ==
    /\ ret.fn = "from_encoded"
    /\ ret.arg = Hex32(0, 0, \h42, \h86)
    /\ ret.out.tag = "Some"
    /\ id_get_width(ret.out.v) = 2

\* C10: get_id() of every built-in element and container type returns an Id,
\* and the Id is the one whose encoded form is the fixed Id of the type.
C10_StandardIds ==
    \A t \in StdTypes :
        ret.fn = t.name =>
            /\ ret.out.tag = "Ok"
            /\ EncodedId(ret.out.v) = FixedId(t.name)

----------------------------------------------------------------------------
(* read.rs: read_document and the child readers of ContainerReader.  A      *)
(* ContainerReader is its length; its source is the PeekableReader.         *)

\* Upper bound on the Ids and sizes a document is made of.
MaxTokens == 3

EbmlHeader == CHOOSE t \in StdTypes : t.name = "EbmlHeader"

\* The two versions of Id::load in the repository.
IdLoaders == {"ebml/src/id.rs", "src/id.rs"}
LoadId(which, b, src) ==
    IF which = "src/id.rs" THEN Id_load_ranged(b, src) ELSE Id_load(b, src)

ContainerReader(length) == [length |-> length]

\* let x = v; F(x): v is evaluated once, before F.
Let(v, F(_)) == CHOOSE o \in {F(x) : x \in {v}} : TRUE

\* Size::load(source)? as the length of a new reader.
OpenReader(z, Wrap(_)) ==
    IF z.out.tag = "Ok"
    THEN After(Ok(Wrap(ContainerReader(z.out.v))), z.buf, z.source)
    ELSE z

Same(x) == x

\* read_document without the comparison of the Id read with the root's.
read_document_AnyRoot(which, bytes) ==
    Let(new(bytes), LAMBDA s :
    Let(LoadId(which, s.buf, s.source), LAMBDA l :
        IF l.out.tag # "Ok" THEN l
        ELSE Let(load(l.buf, l.source), LAMBDA z : OpenReader(z, Same))))

\* read_document
read_document(which, bytes) ==
    Let(new(bytes), LAMBDA s :
    Let(get_id(EbmlHeader), LAMBDA root :
    Let(LoadId(which, s.buf, s.source), LAMBDA l :
        IF root.tag # "Ok" THEN After(Panic, s.buf, s.source)
        ELSE IF l.out.tag # "Ok" THEN l
        ELSE IF id_eq(root.v, l.out.v)
        THEN Let(load(l.buf, l.source), LAMBDA z : OpenReader(z, Same))
        ELSE After(Err("WrongId"), l.buf, l.source))))

\* ContainerReader::read_zero_or_one_children_by_container, nc the Id that
\* NC::get_id() returns.
read_zero_or_one_children_by_container(which, nc, b, src) ==
    Let(LoadId(which, b, src), LAMBDA l :
        IF l.out.tag # "Ok" THEN l
        ELSE IF id_eq(nc, l.out.v)
        THEN Let(load(l.buf, l.source), LAMBDA z : OpenReader(z, Some))
        ELSE After(Ok(None), l.buf, l.source))

\* ContainerReader::read_zero_or_many_children_by_container: result is the
\* Vec of readers pushed so far.
RECURSIVE read_zero_or_many_children_by_container(_, _, _, _, _)
read_zero_or_many_children_by_container(which, nc, b, src, result) ==
    Let(LoadId(which, b, src), LAMBDA l :
        IF l.out.tag # "Ok" THEN l
        ELSE IF id_eq(nc, l.out.v)
        THEN Let(load(l.buf, l.source), LAMBDA z :
                 IF z.out.tag = "Ok"
                 THEN read_zero_or_many_children_by_container(
                          which, nc, z.buf, z.source,
                          Append(result, ContainerReader(z.out.v)))
                 ELSE z)
        ELSE After(Ok(result), l.buf, l.source))

----------------------------------------------------------------------------
(* Documents: sequences of encoded Ids and sizes, possibly cut short. *)

RootBytes == <<\h1A, \h45, \hDF, \hA3>>

\* Ids of the four classes, encoded integers that are sizes but not Ids, and
\* the byte 0x00.
DocTokens ==
    { RootBytes, <<\h1A, \h45, \hDF, \hA2>>, <<\h81>>, <<\h42, \h86>>,
      <<\h80>>, <<\hFF>>, <<\h40, \h01>>, <<\h08, 0, 0, 0, 1>>,
      <<\h01, 0, 0, 0, 0, 0, 0, 2>>, <<0>> }

RECURSIVE TokenSeqs(_)
TokenSeqs(n) ==
    IF n = 0 THEN {<<>>}
    ELSE LET S == TokenSeqs(n - 1) IN S \cup {q \o t : q \in S, t \in DocTokens}

Documents == {Take(q, Len(q) - c) : q \in TokenSeqs(MaxTokens), c \in 0..MaxCut}

\* The Ids a child container type NC may have.
ChildIds ==
    { new_class_a(Hex32(0, 0, 0, 1)).v, new_class_b(Hex32(0, 0, \h02, \h86)).v,
      new_class_d(Hex32(\h0A, \h45, \hDF, \hA2)).v }

----------------------------------------------------------------------------
(* Reading a document: read_document, then child readers in any order.      *)
(* data is the document, buf and source the PeekableReader, loaded the      *)
(* readers produced so far; ret.arg is the input left before the call.      *)

InitDoc ==
    /\ data \in Documents
    /\ ret = NoCall
    /\ buf = <<>>
    /\ source = <<>>
    /\ loaded = <<>>
    /\ cmp = None

ReadDocument ==
    /\ ret = NoCall
    /\ \E which \in IdLoaders :
          \E r \in {read_document(which, data)} :
              /\ ret' = Call("read_document", data, r.out)
              /\ buf' = r.buf
              /\ source' = r.source
              /\ loaded' = IF r.out.tag = "Ok" THEN <<r.out.v>> ELSE <<>>
              /\ cmp' = Some(which)
    /\ UNCHANGED codecVars

ReadZeroOrOneChildren ==
    /\ Alive
    /\ loaded # <<>>
    /\ \E nc \in ChildIds :
          \E r \in {read_zero_or_one_children_by_container(cmp.v, nc, buf, source)} :
              /\ ret' = Call("read_zero_or_one_children_by_container",
                             [rest |-> buf \o source, nc |-> nc], r.out)
              /\ buf' = r.buf
              /\ source' = r.source
              /\ loaded' = IF r.out.tag = "Ok" /\ r.out.v.tag = "Some"
                           THEN Append(loaded, r.out.v.v) ELSE loaded
    /\ UNCHANGED <<codecVars, cmp>>

ReadZeroOrManyChildren ==
    /\ Alive
    /\ loaded # <<>>
    /\ \E nc \in ChildIds :
          \E r \in {read_zero_or_many_children_by_container(
                         cmp.v, nc, buf, source, <<>>)} :
              /\ ret' = Call("read_zero_or_many_children_by_container",
                             [rest |-> buf \o source, nc |-> nc], r.out)
              /\ buf' = r.buf
              /\ source' = r.source
              /\ loaded' = IF r.out.tag = "Ok" THEN loaded \o r.out.v ELSE loaded
    /\ UNCHANGED <<codecVars, cmp>>

NextDoc ==
    \/ ReadDocument
    \/ ReadZeroOrOneChildren
    \/ ReadZeroOrManyChildren

SpecDoc == InitDoc /\ [][NextDoc]_vars

----------------------------------------------------------------------------
(* Documents, as the claims about reading describe them. *)

\* The encoded integer a well-formed input starts with.
FirstVint(bytes) == Take(bytes, LeadingZeros8(bytes[1]) + 1)

\* The bytes are an Id: at most 4 wide, not all-ones, in the class of the width.
ValidIdBytes(bytes) ==
    /\ Len(bytes) <= 4
    /\ ~AllOnes(bytes)
    /\ InClass(DataBits(bytes), Len(bytes))

\* The input starts with a valid Id.
StartsWithId(bytes) == ~Malformed(bytes) /\ ValidIdBytes(FirstVint(bytes))

\* C11: on a document that begins with 1A 45 DF A3 and an encoded size,
\* read_document returns Ok with a reader whose length is that size and whose
\* source stands on the first byte after the size; on a document whose first
\* Id is another valid Id it returns Err(WrongId) and produces no reader.
C11_ReadDocument ==
    ret.fn = "read_document" =>
        LET doc == ret.arg
            rest == Drop(doc, 4)
        IN  /\ (Take(doc, 4) = RootBytes /\ ~Malformed(rest)) =>
                   /\ ret.out.tag = "Ok"
                   /\ SizeBytes(ret.out.v.length) = FirstVint(rest)
                   /\ loaded = <<ret.out.v>>
                   /\ buf \o source = Drop(rest, Len(FirstVint(rest)))
            /\ (StartsWithId(doc) /\ FirstVint(doc) # RootBytes) =>
                   /\ ret.out = Err("WrongId")
                   /\ loaded = <<>>

C11_Witness ==
    /\ ret.fn = "read_document"
    /\ Take(ret.arg, 4) = RootBytes
    /\ ret.out.tag = "Ok"
    /\ get_width(ret.out.v.length) = 8
    /\ buf = <<\h42, \h86>>
    /\ cmp = Some("src/id.rs")

\* C12: when the next Id in the source is a valid Id other than the Id of the
\* child asked for, read_zero_or_one_children_by_container returns Ok(None)
\* and leaves the source where it was, the Id still to be read.
C12_LookAhead ==
    (/\ ret.fn = "read_zero_or_one_children_by_container"
     /\ StartsWithId(ret.arg.rest)
     /\ FirstVint(ret.arg.rest) # SizeBytes(ret.arg.nc.data)) =>
        /\ ret.out = Ok(None)
        /\ buf \o source = ret.arg.rest

----------------------------------------------------------------------------
(* container.rs: ContainerImpl.  The struct has no fields; data is the      *)
(* number of children the container it stands for holds.                    *)

\* unimplemented!()
unimplemented == Panic

\* ContainerImpl::get_exactly_one_value_by_container
get_exactly_one_value_by_container(self) == unimplemented

\* ContainerImpl::get_one_or_many_values_by_container
get_one_or_many_values_by_container(self) == unimplemented

\* ContainerImpl::len
len(self) == unimplemented

\* ContainerImpl::is_empty: self.len().get_value().map(|x| x > 0).unwrap_or(false)
is_empty(self) ==
    Let(len(self), LAMBDA l :
        IF l.tag # "Ok" THEN l
        ELSE Let(get_value(l.v), LAMBDA v :
                 Ok(IF v.tag = "Some" THEN Lt(ZeroWord, v.v) ELSE FALSE)))

\* root_container
root_container == [_c |-> "EbmlHeader", _l |-> 0]

CallGetExactlyOne ==
    /\ ret = NoCall
    /\ ret' = Call("get_exactly_one_value_by_container", data,
                   get_exactly_one_value_by_container(root_container))
    /\ UNCHANGED <<codecVars, readerVars>>

CallGetOneOrMany ==
    /\ ret = NoCall
    /\ ret' = Call("get_one_or_many_values_by_container", data,
                   get_one_or_many_values_by_container(root_container))
    /\ UNCHANGED <<codecVars, readerVars>>

CallLen ==
    /\ ret = NoCall
    /\ ret' = Call("len", data, len(root_container))
    /\ UNCHANGED <<codecVars, readerVars>>

CallIsEmpty ==
    /\ ret = NoCall
    /\ ret' = Call("is_empty", data, is_empty(root_container))
    /\ UNCHANGED <<codecVars, readerVars>>

NextContainer ==
    \/ CallGetExactlyOne
    \/ CallGetOneOrMany
    \/ CallLen
    \/ CallIsEmpty

SpecContainer == Init /\ [][NextContainer]_vars

\* C13: reading a required child (ExactlyOne or OneOrMany) from a container
\* that holds no occurrence of it reports the error MissingRequiredChild.
C13_MissingRequiredChild ==
    (/\ ret.fn \in {"get_exactly_one_value_by_container",
                    "get_one_or_many_values_by_container"}
     /\ ret.arg = ZeroWord) =>
        ret.out = Err("MissingRequiredChild")

\* C19: is_empty() returns true exactly for a container of no children, and
\* false for every container with a known number of children above 0.
C19_IsEmpty ==
    ret.fn = "is_empty" => ret.out = Ok(ret.arg = ZeroWord)

----------------------------------------------------------------------------
(* value.rs: IntValue and UintValue.  An iN or uN is the word of its value  *)
(* as i64 or u64 (sign- or zero-extended); the casts truncate.              *)

\* The sign of a word read as i64.
IsNeg(w) == w[1] >= 128

\* !w and -w on i64.
Not(w) == Word([i \in 1..8 |-> 255 - w[i]])
Minus(w) == Offset(Not(w), 1)

\* a < b and a > b on i64.
SLt(a, b) == IF IsNeg(a) # IsNeg(b) THEN IsNeg(a) ELSE Lt(a, b)
SGt(a, b) == SLt(b, a)

\* w as i8, w as i16, w as i32: the low bytes, sign-extended.
AsSigned(w, n) ==
    Word([i \in 1..8 |-> IF i > 8 - n THEN w[i]
                         ELSE IF w[9 - n] >= 128 THEN 255 ELSE 0])
AsI8(w) == AsSigned(w, 1)
AsI16(w) == AsSigned(w, 2)
AsI32(w) == AsSigned(w, 4)

\* IntValue::Int0 and IntValue::Int<n>(x)
Int0 == [kind |-> "Int", n |-> 0]
IntN(n, x) == [kind |-> "Int", n |-> n, x |-> x]

\* impl From<i8> for IntValue
IntValue_from_i8(d) == IF d = ZeroWord THEN Int0 ELSE IntN(1, d)

\* impl From<i16> for IntValue
IntValue_from_i16(d) ==
    IF SGt(d, Hex32(0, 0, 0, \h7F)) \/ SLt(d, Minus(Hex32(0, 0, 0, \h80)))
    THEN IntN(2, d)
    ELSE IntValue_from_i8(AsI8(d))

\* From<i32> with the lower limit of three bytes off by one.
IntValue_from_i32_OffByOne(d) ==
    IF SGt(d, Hex32(0, \h7F, \hFF, \hFF)) \/ SLt(d, Minus(Hex32(0, \h7F, \hFF, \hFF)))
    THEN IntN(4, d)
    ELSE IF SGt(d, Hex32(0, 0, \h7F, \hFF)) \/ SLt(d, Minus(Hex32(0, 0, \h80, 0)))
    THEN IntN(3, d)
    ELSE IntValue_from_i16(AsI16(d))

\* impl From<i32> for IntValue
IntValue_from_i32(d) ==
    IF SGt(d, Hex32(0, \h7F, \hFF, \hFF)) \/ SLt(d, Minus(Hex32(0, \h80, 0, 0)))
    THEN IntN(4, d)
    ELSE IF SGt(d, Hex32(0, 0, \h7F, \hFF)) \/ SLt(d, Minus(Hex32(0, 0, \h80, 0)))
    THEN IntN(3, d)
    ELSE IntValue_from_i16(AsI16(d))

\* impl From<i64> for IntValue
IntValue_from_i64(d) ==
    IF \/ SGt(d, Hex64(0, \h7F, \hFF, \hFF, \hFF, \hFF, \hFF, \hFF))
       \/ SLt(d, Minus(Hex64(0, \h80, 0, 0, 0, 0, 0, 0)))
    THEN IntN(8, d)
    ELSE IF \/ SGt(d, Hex64(0, 0, \h7F, \hFF, \hFF, \hFF, \hFF, \hFF))
            \/ SLt(d, Minus(Hex64(0, 0, \h80, 0, 0, 0, 0, 0)))
    THEN IntN(7, d)
    ELSE IF \/ SGt(d, Hex64(0, 0, 0, \h7F, \hFF, \hFF, \hFF, \hFF))
            \/ SLt(d, Minus(Hex64(0, 0, 0, \h80, 0, 0, 0, 0)))
    THEN IntN(6, d)
    ELSE IF \/ SGt(d, Hex64(0, 0, 0, 0, \h7F, \hFF, \hFF, \hFF))
            \/ SLt(d, Minus(Hex64(0, 0, 0, 0, \h80, 0, 0, 0)))
    THEN IntN(5, d)
    ELSE IntValue_from_i32(AsI32(d))

\* IntValue::get_size and UintValue::get_size: <n>u8.into()
Value_get_size(v) == From_u8(Hex32(0, 0, 0, v.n))

\* IntValue::to_repr and UintValue::to_repr: 0 or x as i64 / u64.
Value_to_repr(v) == IF v.n = 0 THEN ZeroWord ELSE v.x

\* UintValue::Uint0 and UintValue::Uint<n>(x)
Uint0 == [kind |-> "Uint", n |-> 0]
UintN(n, x) == [kind |-> "Uint", n |-> n, x |-> x]

\* impl From<u8> for UintValue
UintValue_from_u8(d) == IF d = ZeroWord THEN Uint0 ELSE UintN(1, d)

\* impl From<u16> for UintValue
UintValue_from_u16(d) ==
    IF Lt(Hex32(0, 0, 0, \hFF), d) THEN UintN(2, d)
    ELSE UintValue_from_u8(AsU8(d))

\* impl From<u32> for UintValue
UintValue_from_u32(d) ==
    IF Lt(Hex32(0, \hFF, \hFF, \hFF), d) THEN UintN(4, d)
    ELSE IF Lt(Hex32(0, 0, \hFF, \hFF), d) THEN UintN(3, d)
    ELSE UintValue_from_u16(AsU16(d))

\* impl From<u64> for UintValue
UintValue_from_u64(d) ==
    IF Lt(Hex64(0, \hFF, \hFF, \hFF, \hFF, \hFF, \hFF, \hFF), d) THEN UintN(8, d)
    ELSE IF Lt(Hex64(0, 0, \hFF, \hFF, \hFF, \hFF, \hFF, \hFF), d) THEN UintN(7, d)
    ELSE IF Lt(Hex64(0, 0, 0, \hFF, \hFF, \hFF, \hFF, \hFF), d) THEN UintN(6, d)
    ELSE IF Lt(Hex64(0, 0, 0, 0, \hFF, \hFF, \hFF, \hFF), d) THEN UintN(5, d)
    ELSE UintValue_from_u32(AsU32(d))

\* A value, its get_size() and its to_repr().
Queried(v) == [value |-> v, size |-> Value_get_size(v), repr |-> Value_to_repr(v)]

----------------------------------------------------------------------------
(* Integer conversions, applied to the drawn input. *)

\* The inputs and, for the lower ends of the signed ranges, their complements.
IntInputs == Inputs \cup {Not(x) : x \in Inputs}

IsI8(w) == AsI8(w) = w
IsI16(w) == AsI16(w) = w
IsI32(w) == AsI32(w) = w

InitInt ==
    /\ data \in IntInputs
    /\ ret = NoCall
    /\ buf = <<>>
    /\ source = <<>>
    /\ loaded = <<>>
    /\ cmp = None

IntFromI8 ==
    /\ ret = NoCall
    /\ IsI8(data)
    /\ ret' = Call("IntValue::from(i8)", data, Queried(IntValue_from_i8(data)))
    /\ UNCHANGED <<codecVars, readerVars>>

IntFromI16 ==
    /\ ret = NoCall
    /\ IsI16(data)
    /\ ret' = Call("IntValue::from(i16)", data, Queried(IntValue_from_i16(data)))
    /\ UNCHANGED <<codecVars, readerVars>>

IntFromI32 ==
    /\ ret = NoCall
    /\ IsI32(data)
    /\ ret' = Call("IntValue::from(i32)", data, Queried(IntValue_from_i32(data)))
    /\ UNCHANGED <<codecVars, readerVars>>

IntFromI64 ==
    /\ ret = NoCall
    /\ ret' = Call("IntValue::from(i64)", data, Queried(IntValue_from_i64(data)))
    /\ UNCHANGED <<codecVars, readerVars>>

UintFromU8 ==
    /\ ret = NoCall
    /\ IsU8(data)
    /\ ret' = Call("UintValue::from(u8)", data, Queried(UintValue_from_u8(data)))
    /\ UNCHANGED <<codecVars, readerVars>>

UintFromU16 ==
    /\ ret = NoCall
    /\ IsU16(data)
    /\ ret' = Call("UintValue::from(u16)", data, Queried(UintValue_from_u16(data)))
    /\ UNCHANGED <<codecVars, readerVars>>

UintFromU32 ==
    /\ ret = NoCall
    /\ IsU32(data)
    /\ ret' = Call("UintValue::from(u32)", data, Queried(UintValue_from_u32(data)))
    /\ UNCHANGED <<codecVars, readerVars>>

UintFromU64 ==
    /\ ret = NoCall
    /\ ret' = Call("UintValue::from(u64)", data, Queried(UintValue_from_u64(data)))
    /\ UNCHANGED <<codecVars, readerVars>>

NextInt ==
    \/ IntFromI8
    \/ IntFromI16
    \/ IntFromI32
    \/ IntFromI64
    \/ UintFromU8
    \/ UintFromU16
    \/ UintFromU32
    \/ UintFromU64

SpecInt == InitInt /\ [][NextInt]_vars

----------------------------------------------------------------------------
(* Integer widths, as the claim states them. *)

IntConversions ==
    {"IntValue::from(i8)", "IntValue::from(i16)", "IntValue::from(i32)",
     "IntValue::from(i64)"}
UintConversions ==
    {"UintValue::from(u8)", "UintValue::from(u16)", "UintValue::from(u32)",
     "UintValue::from(u64)"}

\* v lies in the two's-complement range of w bytes: the bytes above the low w
\* repeat the sign bit of the low w.
FitsSigned(v, w) ==
    \A i \in 1..(8 - w) : v[i] = IF v[9 - w] >= 128 THEN 255 ELSE 0

\* v lies in the unsigned range of w bytes.
FitsUnsigned(v, w) == \A i \in 1..(8 - w) : v[i] = 0

\* The smallest width in 0..8 whose range holds v, 0 for v = 0 only.
LeastWidth(v, Fits(_, _)) ==
    IF v = ZeroWord THEN 0
    ELSE CHOOSE w \in 1..8 : Fits(v, w) /\ \A u \in 1..(w - 1) : ~Fits(v, u)

\* C14: a native integer v converted to an IntValue or a UintValue is stored
\* at the smallest width in 0..8 bytes whose signed (unsigned) range holds v,
\* 0 bytes for v = 0 only; get_size() is that width and to_repr() is v,
\* whichever native type carried v.
C14_IntegerWidth ==
    (ret.fn \in IntConversions \cup UintConversions) =>
        LET w == IF ret.fn \in IntConversions
                 THEN LeastWidth(ret.arg, FitsSigned)
                 ELSE LeastWidth(ret.arg, FitsUnsigned)
        IN  /\ ret.out.value.n = w
            /\ get_value(ret.out.size) = Some(Hex32(0, 0, 0, w))
            /\ ret.out.repr = ret.arg

\* -0x80_0000 carried by an i32 is stored in three bytes.
C14_Witness ==
    /\ ret.fn = "IntValue::from(i32)"
    /\ ret.arg = Hex64(\hFF, \hFF, \hFF, \hFF, \hFF, \h80, 0, 0)
    /\ ret.out.value.n = 3
    /\ ret.out.repr = ret.arg

----------------------------------------------------------------------------
(* value.rs: DateValue.  An i64 is its sign and its magnitude in five       *)
(* digits of base 10^6, most significant first; the arithmetic is exact     *)
(* and the checked operations test the result against the range of i64.     *)

Dec(neg, mag) == [neg |-> neg, mag |-> mag]

ZeroMag == <<0, 0, 0, 0, 0>>

\* The order of two magnitudes: -1, 0 or 1.
RECURSIVE MagCmpFrom(_, _, _)
MagCmpFrom(a, b, i) ==
    IF i > 5 THEN 0
    ELSE IF a[i] < b[i] THEN 0 - 1
    ELSE IF a[i] > b[i] THEN 1
    ELSE MagCmpFrom(a, b, i + 1)
MagCmp(a, b) == MagCmpFrom(a, b, 1)

\* a + b on magnitudes.
MagAdd(a, b) ==
    LET s5 == a[5] + b[5]
        s4 == a[4] + b[4] + s5 \div 1000000
        s3 == a[3] + b[3] + s4 \div 1000000
        s2 == a[2] + b[2] + s3 \div 1000000
        s1 == a[1] + b[1] + s2 \div 1000000
    IN  <<s1 % 1000000, s2 % 1000000, s3 % 1000000, s4 % 1000000, s5 % 1000000>>

\* a - b on magnitudes, a >= b.
MagSub(a, b) ==
    LET d5 == a[5] - b[5]
        d4 == a[4] - b[4] - (IF d5 < 0 THEN 1 ELSE 0)
        d3 == a[3] - b[3] - (IF d4 < 0 THEN 1 ELSE 0)
        d2 == a[2] - b[2] - (IF d3 < 0 THEN 1 ELSE 0)
        d1 == a[1] - b[1] - (IF d2 < 0 THEN 1 ELSE 0)
    IN  <<d1 % 1000000, d2 % 1000000, d3 % 1000000, d4 % 1000000, d5 % 1000000>>

\* a * 1000 and a * 10^6 on magnitudes.
MagMul1000(a) ==
    LET p5 == a[5] * 1000
        p4 == a[4] * 1000 + p5 \div 1000000
        p3 == a[3] * 1000 + p4 \div 1000000
        p2 == a[2] * 1000 + p3 \div 1000000
        p1 == a[1] * 1000 + p2 \div 1000000
    IN  <<p1 % 1000000, p2 % 1000000, p3 % 1000000, p4 % 1000000, p5 % 1000000>>
MagMulMillion(a) == <<a[2], a[3], a[4], a[5], 0>>

\* Zero has no sign.
Signed(neg, mag) == Dec(neg /\ mag # ZeroMag, mag)

DecNeg(x) == Signed(~x.neg, x.mag)

\* x + y, x - y, x <= y on integers.
DecAdd(x, y) ==
    IF x.neg = y.neg THEN Signed(x.neg, MagAdd(x.mag, y.mag))
    ELSE IF MagCmp(x.mag, y.mag) >= 0 THEN Signed(x.neg, MagSub(x.mag, y.mag))
    ELSE Signed(y.neg, MagSub(y.mag, x.mag))
DecSub(x, y) == DecAdd(x, DecNeg(y))
DecLe(x, y) ==
    IF x.neg # y.neg THEN x.neg
    ELSE IF x.neg THEN MagCmp(x.mag, y.mag) >= 0
    ELSE MagCmp(x.mag, y.mag) <= 0

\* i64::MAX = 9_223_372_036_854_775_807 and i64::MIN.
I64Max == Dec(FALSE, <<0, 9, 223372, 36854, 775807>>)
I64Min == Dec(TRUE, <<0, 9, 223372, 36854, 775808>>)
InI64(x) == DecLe(I64Min, x) /\ DecLe(x, I64Max)

\* The multipliers 1_000_000i64 and 1_000_000_000i64.
Million == Dec(FALSE, <<0, 0, 0, 1, 0>>)
Billion == Dec(FALSE, <<0, 0, 0, 1000, 0>>)

\* x * k for k one of the two multipliers.
DecMul(x, k) ==
    IF k = Million THEN Signed(x.neg, MagMulMillion(x.mag))
    ELSE Signed(x.neg, MagMulMillion(MagMul1000(x.mag)))

\* i64::checked_add, checked_sub, checked_mul
Checked(r) == IF InI64(r) THEN Some(r) ELSE None
checked_add(x, y) == Checked(DecAdd(x, y))
checked_sub(x, y) == Checked(DecSub(x, y))
checked_mul(x, k) == Checked(DecMul(x, k))

UNIX_TO_MILLENNIUM_NANOS == Dec(FALSE, <<0, 0, 978307, 200000, 0>>)
UNIX_TO_MILLENNIUM_SECONDS == Dec(FALSE, <<0, 0, 0, 978, 307200>>)

DateValue(n) == [nanos_since_millennium |-> n]

\* Option::and_then(|x| x.checked_mul(k)).map(|n| DateValue { n })
ScaleToDate(x, k) ==
    IF x.tag # "Some" THEN None
    ELSE Let(checked_mul(x.v, k), LAMBDA n :
             IF n.tag = "Some" THEN Some(DateValue(n.v)) ELSE None)

\* DateValue::from_unix_millis
from_unix_millis(millis) ==
    ScaleToDate(checked_sub(millis, UNIX_TO_MILLENNIUM_NANOS), Million)

\* DateValue::from_unix_seconds
from_unix_seconds(seconds) ==
    ScaleToDate(checked_sub(seconds, UNIX_TO_MILLENNIUM_SECONDS), Billion)

\* DateValue::to_repr without the chrono feature: expect() panics on None.
DateValue_to_repr(self) ==
    Let(checked_add(self.nanos_since_millennium, UNIX_TO_MILLENNIUM_NANOS), LAMBDA r :
        IF r.tag = "Some" THEN Ok(r.v) ELSE Panic)

----------------------------------------------------------------------------
(* restrictions.rs: DateRangeRestriction without the chrono feature. *)

OpenLeft(max) == [kind |-> "OpenLeft", max |-> max]
OpenRight(min) == [kind |-> "OpenRight", min |-> min]
Closed(min, max) == [kind |-> "Closed", min |-> min, max |-> max]

\* impl Restriction<DateValue> for DateRangeRestriction
DateRangeRestriction_matches(self, value) ==
    Let(DateValue_to_repr(value), LAMBDA r :
        IF r.tag # "Ok" THEN r
        ELSE Ok(CASE self.kind = "OpenLeft" -> DecLe(r.v, self.max)
                  [] self.kind = "OpenRight" -> DecLe(self.min, r.v)
                  [] self.kind = "Closed" ->
                        DecLe(self.min, r.v) /\ DecLe(r.v, self.max)))

----------------------------------------------------------------------------
(* Dates: a conversion of the drawn input, then restrictions matched        *)
(* against the DateValue it returned.                                       *)

DecOffset(x, d) == DecAdd(x, Dec(d < 0, <<0, 0, 0, 0, IF d < 0 THEN 0 - d ELSE d>>))

\* The instants the conversions turn on: the epochs in each unit and the
\* ends of the ranges the products fit in.
DateBases ==
    { Dec(FALSE, ZeroMag),
      UNIX_TO_MILLENNIUM_SECONDS,
      Dec(FALSE, <<0, 0, 0, 978307, 200000>>),
      UNIX_TO_MILLENNIUM_NANOS,
      Dec(FALSE, <<0, 0, 0, 978, 307201>>),
      Dec(FALSE, <<0, 0, 0, 978, 307199>>),
      Dec(FALSE, <<0, 0, 9, 223372, 36854>>),
      Dec(TRUE, <<0, 0, 9, 223372, 36854>>),
      Dec(FALSE, <<0, 0, 0, 9223, 372036>>),
      Dec(TRUE, <<0, 0, 0, 9223, 372036>>),
      DecAdd(Dec(FALSE, <<0, 0, 0, 9223, 372036>>), UNIX_TO_MILLENNIUM_SECONDS),
      DecAdd(Dec(FALSE, <<0, 0, 9, 223372, 36854>>), UNIX_TO_MILLENNIUM_NANOS),
      DecAdd(Dec(FALSE, <<0, 0, 9, 223372, 36854>>),
             Dec(FALSE, <<0, 0, 0, 978307, 200000>>)),
      I64Max, I64Min }

DateInputs ==
    {x \in {DecOffset(b, d) : b \in DateBases, d \in (0 - Radius)..Radius} : InI64(x)}

DateBounds ==
    { Dec(FALSE, ZeroMag), Dec(FALSE, <<0, 0, 0, 1000, 0>>),
      Dec(TRUE, <<0, 0, 0, 1000, 0>>), UNIX_TO_MILLENNIUM_NANOS, I64Max, I64Min }

DateRestrictions ==
    {OpenLeft(b) : b \in DateBounds} \cup {OpenRight(b) : b \in DateBounds}
        \cup {Closed(a, b) : a \in DateBounds, b \in DateBounds}

InitDate ==
    /\ data \in DateInputs
    /\ ret = NoCall
    /\ buf = <<>>
    /\ source = <<>>
    /\ loaded = <<>>
    /\ cmp = None

FromUnixMillis ==
    /\ ret = NoCall
    /\ \E r \in {from_unix_millis(data)} :
          /\ ret' = Call("from_unix_millis", data, r)
          /\ loaded' = IF r.tag = "Some" THEN <<r.v>> ELSE <<>>
    /\ UNCHANGED <<codecVars, buf, source, cmp>>

FromUnixSeconds ==
    /\ ret = NoCall
    /\ \E r \in {from_unix_seconds(data)} :
          /\ ret' = Call("from_unix_seconds", data, r)
          /\ loaded' = IF r.tag = "Some" THEN <<r.v>> ELSE <<>>
    /\ UNCHANGED <<codecVars, buf, source, cmp>>

Matches ==
    /\ loaded # <<>>
    /\ cmp = None
    /\ \E self \in DateRestrictions :
          cmp' = Some([self |-> self, value |-> loaded[1],
                       out |-> DateRangeRestriction_matches(self, loaded[1])])
    /\ UNCHANGED <<codecVars, ret, buf, source, loaded>>

NextDate ==
    \/ FromUnixMillis
    \/ FromUnixSeconds
    \/ Matches

SpecDate == InitDate /\ [][NextDate]_vars

----------------------------------------------------------------------------
(* Dates, as the claims state them. *)

\* 978_307_200_000, the milliseconds from the Unix epoch to 2001-01-01.
MillenniumMillis == Dec(FALSE, <<0, 0, 0, 978307, 200000>>)

\* C15: from_unix_millis(m) is the DateValue of (m - 978_307_200_000) *
\* 1_000_000 nanoseconds since 2001 whenever that fits i64 and None only
\* otherwise; from_unix_millis(978_307_200_000) is the millennium instant,
\* as is from_unix_seconds(978_307_200).
C15_FromUnixMillis ==
    /\ ret.fn = "from_unix_millis" =>
          LET nanos == DecMul(DecSub(ret.arg, MillenniumMillis), Million)
          IN  ret.out = IF InI64(nanos) THEN Some(DateValue(nanos)) ELSE None
    /\ (ret.fn = "from_unix_seconds" /\ ret.arg = UNIX_TO_MILLENNIUM_SECONDS) =>
          ret.out = Some(DateValue(Dec(FALSE, ZeroMag)))

\* C16: a DateRangeRestriction whose bounds are nanoseconds since 2001
\* matches a DateValue of n nanoseconds since 2001 iff min <= n <= max
\* (Closed), n <= max (OpenLeft), min <= n (OpenRight), and the check
\* returns for every n.
C16_DateRange ==
    cmp # None =>
        LET self == cmp.v.self
            n == cmp.v.value.nanos_since_millennium
        IN  cmp.v.out =
                Ok(CASE self.kind = "OpenLeft" -> DecLe(n, self.max)
                     [] self.kind = "OpenRight" -> DecLe(self.min, n)
                     [] self.kind = "Closed" -> DecLe(self.min, n) /\ DecLe(n, self.max))

----------------------------------------------------------------------------
(* restrictions.rs: StringRangeRestriction, lists of them and Union; a char *)
(* is its scalar value, a String the sequence of its chars.                 *)

\* Upper bounds on the items of a list and on the chars of a string.
MaxItems == 2
MaxStr == 2

Single(allowed) == [kind |-> "Single", allowed |-> allowed]

\* StringValue::from and StringValue::to_repr
StringValue(str) == [data |-> str, padding_len |-> 0]
StringValue_to_repr(self) == self.data

\* The match on *self of StringRangeRestriction::matches, for one char.
MatchChar(s, c) ==
    CASE s.kind = "Single" -> c = s.allowed
      [] s.kind = "Closed" -> s.min <= c /\ c <= s.max
      [] s.kind = "OpenRight" -> s.min <= c

\* impl Restriction<StringValue> for StringRangeRestriction
StringRangeRestriction_matches(self, value) ==
    LET v == StringValue_to_repr(value)
    IN  \A i \in 1..Len(v) : MatchChar(self, v[i])

\* The list restriction with any() over the chars in place of all().
List_matches_AnyChar(self, value) ==
    LET v == StringValue_to_repr(value)
    IN  \E i \in 1..Len(v) : \E k \in 1..Len(self) : MatchChar(self[k], v[i])

\* impl Restriction<StringValue> for [StringRangeRestriction]
List_matches(self, value) ==
    LET v == StringValue_to_repr(value)
    IN  \A i \in 1..Len(v) : \E k \in 1..Len(self) : MatchChar(self[k], v[i])

\* impl From<Vec<Box<Restriction<V>>>> for Union
Union_from(restrictions) == [restrictions |-> restrictions]

\* impl Restriction<V> for Union, its children StringRangeRestrictions
Union_matches(self, value) ==
    \E k \in 1..Len(self.restrictions) :
        StringRangeRestriction_matches(self.restrictions[k], value)

\* DocType::get_restrictions
DocType_get_restrictions == unimplemented

----------------------------------------------------------------------------
(* Restrictions matched against strings. *)

\* Chars below, at and within the printable range.
Chars == {\h1F, \h20, \h74}

Items ==
    {Single(c) : c \in Chars} \cup {OpenRight(c) : c \in Chars}
        \cup {Closed(a, b) : a \in Chars, b \in Chars}

RECURSIVE SeqsUpTo(_, _)
SeqsUpTo(S, n) ==
    IF n = 0 THEN {<<>>}
    ELSE LET P == SeqsUpTo(S, n - 1) IN P \cup {Append(q, x) : q \in P, x \in S}

InitString ==
    /\ data \in [list : SeqsUpTo(Items, MaxItems), str : SeqsUpTo(Chars, MaxStr)]
    /\ ret = NoCall
    /\ buf = <<>>
    /\ source = <<>>
    /\ loaded = <<>>
    /\ cmp = None

\* The list and the Union of its items, matched against the same value.
MatchString ==
    /\ ret = NoCall
    /\ LET value == StringValue(data.str)
       IN  ret' = Call("matches", data,
                       [list |-> List_matches(data.list, value),
                        union |-> Union_matches(Union_from(data.list), value)])
    /\ UNCHANGED <<codecVars, readerVars>>

\* The restriction of DocType, asked for a value of the bytes data.str.
DocTypeGetRestrictions ==
    /\ ret = NoCall
    /\ ret' = Call("DocType::get_restrictions", data.str, DocType_get_restrictions)
    /\ UNCHANGED <<codecVars, readerVars>>

NextString ==
    \/ MatchString
    \/ DocTypeGetRestrictions

SpecString == InitString /\ [][NextString]_vars

----------------------------------------------------------------------------
(* String restrictions, as the claims state them. *)

\* The chars an item admits.
Admits(item) ==
    CASE item.kind = "Single" -> {item.allowed}
      [] item.kind = "Closed" -> {c \in Chars : item.min <= c /\ c <= item.max}
      [] item.kind = "OpenRight" -> {c \in Chars : item.min <= c}

Range(q) == {q[i] : i \in 1..Len(q)}

\* C17, as claimed: a list of StringRangeRestriction items matches a value
\* if and only if the Union built from the same items matches it.
C17_ListIsUnion ==
    ret.fn = "matches" => (ret.out.list <=> ret.out.union)

\* C17, amended: the list matches s iff every char of s is admitted by at
\* least one item, the Union iff at least one item admits every char of s;
\* so the list matches whenever the Union does, and the two agree when the
\* list has one item or s has one char.
C17_ListIsUnionOfRanges ==
    ret.fn = "matches" =>
        LET L == Range(ret.arg.list)
            s == Range(ret.arg.str)
        IN  /\ ret.out.list <=> s \subseteq UNION {Admits(item) : item \in L}
            /\ ret.out.union <=> \E item \in L : s \subseteq Admits(item)
            /\ ret.out.union => ret.out.list
            /\ (Len(ret.arg.list) = 1 \/ Len(ret.arg.str) = 1) =>
                   (ret.out.list <=> ret.out.union)

\* Two chars, each admitted by another item.
C17_Witness ==
    /\ ret.fn = "matches"
    /\ ret.arg.list = <<Single(\h20), Single(\h74)>>
    /\ ret.arg.str = <<\h20, \h74>>
    /\ ret.out.list
    /\ ~ret.out.union

\* C18: DocType::get_restrictions() yields a restriction, and it matches a
\* value iff every byte of the value lies in 0x20..=0x7E.
C18_DocTypePrintable ==
    ret.fn = "DocType::get_restrictions" =>
        /\ ret.out.tag = "Ok"
        /\ ret.out.v.tag = "Some"
        /\ LET r == ret.out.v.v
               value == StringValue(ret.arg)
           IN  StringRangeRestriction_matches(r, value)
                   <=> \A i \in 1..Len(ret.arg) : \h20 <= ret.arg[i] /\ ret.arg[i] <= \h7E

----------------------------------------------------------------------------
(* ebml_macros parsers/mod.rs: the EDTD parsers.  An input is the sequence  *)
(* of its characters, one-character strings; a parser returns what it       *)
(* produced and the input left, or fails.                                   *)

POk(v, rest) == [ok |-> TRUE, v |-> v, rest |-> rest]
PErr == [ok |-> FALSE]

DigitChars == <<"0", "1", "2", "3", "4", "5", "6", "7", "8", "9">>
UpperChars ==
    <<"A", "B", "C", "D", "E", "F", "G", "H", "I", "J", "K", "L", "M",
      "N", "O", "P", "Q", "R", "S", "T", "U", "V", "W", "X", "Y", "Z">>
LowerChars ==
    <<"a", "b", "c", "d", "e", "f", "g", "h", "i", "j", "k", "l", "m",
      "n", "o", "p", "q", "r", "s", "t", "u", "v", "w", "x", "y", "z">>

Elems(q) == {q[i] : i \in 1..Len(q)}
IndexOf(q, c) == CHOOSE i \in 1..Len(q) : q[i] = c

\* nom::is_digit, AsChar::is_alpha, AsChar::is_alphanum, nom::is_hex_digit
is_digit(c) == c \in Elems(DigitChars)
is_alpha(c) == c \in Elems(UpperChars) \cup Elems(LowerChars)
is_alphanum(c) == is_alpha(c) \/ is_digit(c)
is_hex_digit(c) ==
    is_digit(c) \/ c \in {"A", "B", "C", "D", "E", "F", "a", "b", "c", "d", "e", "f"}

\* The whitespace of nom::multispace.
is_space(c) == c \in {" ", "\t", "\r", "\n"}

\* The length of the longest prefix of input whose characters satisfy P.
RECURSIVE PrefixLen(_, _, _)
PrefixLen(P(_), input, n) ==
    IF n < Len(input) /\ P(input[n + 1]) THEN PrefixLen(P, input, n + 1) ELSE n

\* take_while!(P): never fails on a complete input.
take_while(P(_), input) ==
    Let(PrefixLen(P, input, 0), LAMBDA n : POk(Take(input, n), Drop(input, n)))

\* tag!(t)
tag(t, input) ==
    IF Len(input) >= Len(t) /\ Take(input, Len(t)) = t
    THEN POk(t, Drop(input, Len(t)))
    ELSE PErr

\* The first position from which input continues with t, 0 if none.
Find(t, input) ==
    LET at == {i \in 1..(Len(input) - Len(t) + 1) : SubSeq(input, i, i + Len(t) - 1) = t}
    IN  IF at = {} THEN 0 ELSE CHOOSE i \in at : \A j \in at : i <= j

\* lcomment: "//", then up to and with the next newline.
lcomment(input) ==
    Let(tag(<<"/", "/">>, input), LAMBDA t :
        IF ~t.ok THEN PErr
        ELSE Let(Find(<<"\n">>, t.rest), LAMBDA i :
                 IF i = 0 THEN PErr
                 ELSE POk(Take(t.rest, i - 1), Drop(t.rest, i))))

\* bcomment: "/*", up to the next "*/", "*/".
bcomment(input) ==
    Let(tag(<<"/", "*">>, input), LAMBDA t :
        IF ~t.ok THEN PErr
        ELSE Let(Find(<<"*", "/">>, t.rest), LAMBDA i :
                 IF i = 0 THEN PErr
                 ELSE POk(Take(t.rest, i - 1), Drop(t.rest, i + 1))))

\* comment: alt_complete!(lcomment | bcomment)
comment(input) ==
    Let(lcomment(input), LAMBDA l : IF l.ok THEN l ELSE bcomment(input))

\* nom::multispace: one or more whitespace characters.
multispace(input) ==
    Let(PrefixLen(is_space, input, 0), LAMBDA n :
        IF n = 0 THEN PErr ELSE POk(Take(input, n), Drop(input, n)))

\* sep: many0!(alt!(nom::multispace | comment)), its value ().
RECURSIVE sep(_)
sep(input) ==
    Let(multispace(input), LAMBDA m :
        IF m.ok THEN sep(m.rest)
        ELSE Let(comment(input), LAMBDA c :
                 IF c.ok THEN sep(c.rest) ELSE POk("()", input)))

\* name: a letter or '_', then letters, digits and '_'.
name(input) ==
    IF Len(input) = 0 THEN PErr
    ELSE IF ~is_alpha(input[1]) /\ input[1] # "_" THEN PErr
    ELSE Let(1 + PrefixLen(LAMBDA c : is_alphanum(c) \/ c = "_", Drop(input, 1), 0),
             LAMBDA n : POk(Take(input, n), Drop(input, n)))


\* core::num: the ranges of the integer types the parsers produce.
U64Max == Dec(FALSE, <<0, 18, 446744, 73709, 551615>>)
I32Max == Dec(FALSE, <<0, 0, 0, 2147, 483647>>)
I32Min == Dec(TRUE, <<0, 0, 0, 2147, 483648>>)
U32Max == Dec(FALSE, <<0, 0, 0, 4294, 967295>>)
DecZero == Dec(FALSE, ZeroMag)
IntType(signed, lo, hi) == [signed |-> signed, lo |-> lo, hi |-> hi]
u64 == IntType(FALSE, DecZero, U64Max)
i64 == IntType(TRUE, I64Min, I64Max)
u32 == IntType(FALSE, DecZero, U32Max)
i32 == IntType(TRUE, I32Min, I32Max)

\* a * 10 + d on magnitudes.
MagMul10Add(a, d) ==
    LET p5 == a[5] * 10 + d
        p4 == a[4] * 10 + p5 \div 1000000
        p3 == a[3] * 10 + p4 \div 1000000
        p2 == a[2] * 10 + p3 \div 1000000
        p1 == a[1] * 10 + p2 \div 1000000
    IN  <<p1 % 1000000, p2 % 1000000, p3 % 1000000, p4 % 1000000, p5 % 1000000>>

to_digit(c) == IndexOf(DigitChars, c) - 1

\* The digit loop of from_str_radix: result = result.checked_mul(10) then
\* checked_add(digit), or checked_sub(digit) for a negative number.
RECURSIVE from_str_digits(_, _, _, _, _)
from_str_digits(T, neg, digits, i, result) ==
    IF i > Len(digits) THEN Ok(result)
    ELSE IF ~is_digit(digits[i]) THEN Err("InvalidDigit")
    ELSE Let(Signed(neg, MagMul10Add(result.mag, to_digit(digits[i]))), LAMBDA r :
             IF DecLe(T.lo, r) /\ DecLe(r, T.hi)
             THEN from_str_digits(T, neg, digits, i + 1, r)
             ELSE Err(IF neg THEN "Underflow" ELSE "Overflow"))

\* <T as FromStr>::from_str for the integer types: an optional '+', or '-'
\* for a signed type, then at least one digit.
from_str(T, text) ==
    IF Len(text) = 0 THEN Err("Empty")
    ELSE LET plus == text[1] = "+"
             neg == text[1] = "-" /\ T.signed
             digits == IF plus \/ neg THEN Drop(text, 1) ELSE text
         IN  IF Len(digits) = 0 THEN Err("Empty")
             ELSE from_str_digits(T, neg, digits, 1, DecZero)

\* map_res!(p, f): fails where f returns Err.
map_res(p, f(_)) ==
    IF ~p.ok THEN PErr
    ELSE Let(f(p.v), LAMBDA r : IF r.tag = "Ok" THEN POk(r.v, p.rest) ELSE PErr)

\* int_v
int_v(input) ==
    map_res(take_while(LAMBDA x : is_digit(x) \/ x = "-", input),
            LAMBDA t : from_str(i64, t))

\* map_res!(take_while!(nom::is_digit), parse_from_complete_slice) as u64
uint_v(input) ==
    map_res(take_while(is_digit, input), LAMBDA t : from_str(u64, t))

\* pair!(sep, tag!(";"))
terminator(input) == tag(<<";">>, sep(input).rest)

\* terminated!(p, pair!(sep, tag!(";")))
terminated(p) ==
    IF ~p.ok THEN PErr
    ELSE Let(terminator(p.rest), LAMBDA t : IF t.ok THEN POk(p.v, t.rest) ELSE PErr)


\* <f64 as FromStr>::from_str: an optional sign, then digits with an
\* optional '.' and at least one digit around it, then an optional exponent
\* of 'e', an optional sign and at least one digit.  The value is kept as
\* the decimal the text denotes: sign, integral and fractional digits,
\* exponent.
f64_exp(neg, integral, fractional, rest) ==
    IF Len(rest) = 0 THEN Err("Invalid")
    ELSE LET eneg == rest[1] = "-"
             digits == IF rest[1] \in {"-", "+"} THEN Drop(rest, 1) ELSE rest
         IN  IF Len(digits) = 0 \/ PrefixLen(is_digit, digits, 0) # Len(digits)
             THEN Err("Invalid")
             ELSE Ok([neg |-> neg, integral |-> integral, fractional |-> fractional,
                      eneg |-> eneg, exp |-> digits])

f64_from_str(text) ==
    IF Len(text) = 0 THEN Err("Empty")
    ELSE LET neg == text[1] = "-"
             s == IF text[1] \in {"-", "+"} THEN Drop(text, 1) ELSE text
             i == take_while(is_digit, s)
         IN  IF Len(s) = 0 THEN Err("Invalid")
             ELSE IF Len(i.rest) = 0
             THEN Ok([neg |-> neg, integral |-> i.v, fractional |-> <<>>,
                      eneg |-> FALSE, exp |-> <<>>])
             ELSE IF i.rest[1] \in {"e", "E"}
             THEN IF Len(i.v) = 0 THEN Err("Invalid")
                  ELSE f64_exp(neg, i.v, <<>>, Drop(i.rest, 1))
             ELSE IF i.rest[1] = "."
             THEN LET f == take_while(is_digit, Drop(i.rest, 1))
                  IN  IF Len(i.v) = 0 /\ Len(f.v) = 0 THEN Err("Invalid")
                      ELSE IF Len(f.rest) = 0
                      THEN Ok([neg |-> neg, integral |-> i.v, fractional |-> f.v,
                               eneg |-> FALSE, exp |-> <<>>])
                      ELSE IF f.rest[1] \in {"e", "E"}
                      THEN f64_exp(neg, i.v, f.v, Drop(f.rest, 1))
                      ELSE Err("Invalid")
             ELSE Err("Invalid")

\* float_v
float_v(input) ==
    map_res(take_while(LAMBDA x : is_digit(x) \/ x \in {"-", "+", ".", "e"}, input),
            f64_from_str)

\* take!(n)
take(n, input) ==
    IF Len(input) < n THEN PErr ELSE POk(Take(input, n), Drop(input, n))

\* A small integer as a number of the model.
DecToNat(x) == x.mag[4] * 1000000 + x.mag[5]

\* map_res!(take!(n), parse_from_complete_slice) for a field of the date.
date_field(T, n, input) == map_res(take(n, input), LAMBDA t : from_str(T, t))

\* chrono: the days of a month of the proleptic Gregorian calendar.
DaysIn(year, month) ==
    IF month \in {4, 6, 9, 11} THEN 30
    ELSE IF month # 2 THEN 31
    ELSE IF year % 4 = 0 /\ (year % 100 # 0 \/ year % 400 = 0) THEN 29
    ELSE 28

\* NaiveDate::from_ymd_opt and NaiveTime::from_hms_opt
from_ymd_opt(year, month, day) ==
    IF month \in 1..12 /\ day >= 1 /\ day <= DaysIn(year, month)
    THEN Some([year |-> year, month |-> month, day |-> day])
    ELSE None
from_hms_opt(hour, minute, second) ==
    IF hour < 24 /\ minute < 60 /\ second < 60
    THEN Some([hour |-> hour, minute |-> minute, second |-> second])
    ELSE None

\* The fraction of a second: opt!(map_res!(recognize!("." digits), f64)).
\* It is absent, and nothing is consumed, where the text is not a float.
fractional(input) ==
    Let(tag(<<".">>, input), LAMBDA d :
        IF ~d.ok THEN POk(None, input)
        ELSE Let(take_while(is_digit, d.rest), LAMBDA f :
                 IF Len(f.v) = 0 THEN POk(None, input)
                 ELSE POk(Some(f.v), f.rest)))

\* The first alternative of date_v: YYYYMMDDTHH:MM:SS[.fraction].
date_v_calendar(input) ==
    Let(date_field(i32, 4, input), LAMBDA year :
    IF ~year.ok THEN PErr ELSE
    Let(date_field(u32, 2, year.rest), LAMBDA month :
    IF ~month.ok THEN PErr ELSE
    Let(date_field(u32, 2, month.rest), LAMBDA day :
    IF ~day.ok THEN PErr ELSE
    Let(tag(<<"T">>, day.rest), LAMBDA t :
    IF ~t.ok THEN PErr ELSE
    Let(date_field(u32, 2, t.rest), LAMBDA hour :
    IF ~hour.ok THEN PErr ELSE
    Let(tag(<<":">>, hour.rest), LAMBDA c1 :
    IF ~c1.ok THEN PErr ELSE
    Let(date_field(u32, 2, c1.rest), LAMBDA minute :
    IF ~minute.ok THEN PErr ELSE
    Let(tag(<<":">>, minute.rest), LAMBDA c2 :
    IF ~c2.ok THEN PErr ELSE
    Let(date_field(u32, 2, c2.rest), LAMBDA second :
    IF ~second.ok THEN PErr ELSE
    Let(fractional(second.rest), LAMBDA part :
    Let(from_hms_opt(DecToNat(hour.v), DecToNat(minute.v), DecToNat(second.v)),
        LAMBDA time :
    IF time = None THEN PErr ELSE
    Let(from_ymd_opt((IF year.v.neg THEN 0 - 1 ELSE 1) * DecToNat(year.v),
                     DecToNat(month.v), DecToNat(day.v)), LAMBDA date :
    IF date = None THEN PErr
    ELSE POk([date |-> date.v, time |-> time.v, fraction |-> part.v],
             part.rest)))))))))))))

\* date_v: the calendar form, or an integer of nanoseconds since 2001.
date_v(input) ==
    Let(date_v_calendar(input), LAMBDA c :
        IF c.ok THEN c
        ELSE Let(int_v(input), LAMBDA n :
                 IF n.ok THEN POk([since2001 |-> n.v], n.rest) ELSE PErr))


\* The value of a hexadecimal digit, and the byte of a character.
HexVal(c) ==
    IF is_digit(c) THEN to_digit(c)
    ELSE IF c \in Elems(UpperChars) THEN IndexOf(UpperChars, c) + 9
    ELSE IndexOf(LowerChars, c) + 9
Punctuation ==
    <<<<"\t", 9>>, <<"\n", 10>>, <<"\r", 13>>, <<" ", 32>>, <<"\"", 34>>,
      <<"*", 42>>, <<"+", 43>>, <<"-", 45>>, <<".", 46>>, <<"/", 47>>,
      <<":", 58>>, <<";", 59>>, <<"=", 61>>, <<"_", 95>>>>
ByteOf(c) ==
    IF is_digit(c) THEN 48 + to_digit(c)
    ELSE IF c \in Elems(UpperChars) THEN 64 + IndexOf(UpperChars, c)
    ELSE IF c \in Elems(LowerChars) THEN 96 + IndexOf(LowerChars, c)
    ELSE Punctuation[CHOOSE i \in 1..Len(Punctuation) : Punctuation[i][1] = c][2]

\* from_hex: two hexadecimal digits a byte, whitespace skipped, None for
\* any other character and for an odd number of digits.
RECURSIVE from_hex_loop(_, _, _, _, _)
from_hex_loop(s, idx, b, modulus, hexbuf) ==
    IF idx > Len(s) THEN (IF modulus = 0 THEN Some(b) ELSE None)
    ELSE IF is_space(s[idx])
    THEN from_hex_loop(s, idx + 1, b, modulus, ((hexbuf * 16) % 256) \div 16)
    ELSE IF ~is_hex_digit(s[idx]) THEN None
    ELSE Let(((hexbuf * 16) % 256) + HexVal(s[idx]), LAMBDA nb :
             IF modulus = 1
             THEN from_hex_loop(s, idx + 1, Append(b, nb), 0, nb)
             ELSE from_hex_loop(s, idx + 1, b, 1, nb))
from_hex(s) == from_hex_loop(s, 1, <<>>, 0, 0)

\* binary_v: "0x" and hexadecimal digits, or a text between double quotes.
binary_v(input) ==
    Let(tag(<<"0", "x">>, input), LAMBDA x :
    Let(IF x.ok THEN take_while(is_hex_digit, x.rest) ELSE PErr, LAMBDA h :
    Let(IF h.ok THEN from_hex(h.v) ELSE None, LAMBDA bytes :
        IF bytes # None THEN POk(bytes.v, h.rest)
        ELSE Let(tag(<<"\"">>, input), LAMBDA q :
                 IF ~q.ok THEN PErr
                 ELSE Let(Find(<<"\"">>, q.rest), LAMBDA i :
                          IF i = 0 THEN PErr
                          ELSE POk([k \in 1..(i - 1) |-> ByteOf(q.rest[k])],
                                   Drop(q.rest, i)))))))

\* String::from_utf8: Ok where the bytes are well-formed UTF-8.
RECURSIVE is_utf8(_, _)
is_utf8(b, i) ==
    LET cont(k) == k <= Len(b) /\ b[k] \in 128..191
        within(k, lo, hi) == k <= Len(b) /\ b[k] \in lo..hi
    IN  IF i > Len(b) THEN TRUE
        ELSE IF b[i] < 128 THEN is_utf8(b, i + 1)
        ELSE IF b[i] \in 194..223 THEN cont(i + 1) /\ is_utf8(b, i + 2)
        ELSE IF b[i] = 224
        THEN within(i + 1, 160, 191) /\ cont(i + 2) /\ is_utf8(b, i + 3)
        ELSE IF b[i] = 237
        THEN within(i + 1, 128, 159) /\ cont(i + 2) /\ is_utf8(b, i + 3)
        ELSE IF b[i] \in 225..239
        THEN cont(i + 1) /\ cont(i + 2) /\ is_utf8(b, i + 3)
        ELSE IF b[i] = 240
        THEN within(i + 1, 144, 191) /\ cont(i + 2) /\ cont(i + 3) /\ is_utf8(b, i + 4)
        ELSE IF b[i] \in 241..243
        THEN cont(i + 1) /\ cont(i + 2) /\ cont(i + 3) /\ is_utf8(b, i + 4)
        ELSE IF b[i] = 244
        THEN within(i + 1, 128, 143) /\ cont(i + 2) /\ cont(i + 3) /\ is_utf8(b, i + 4)
        ELSE FALSE
String_from_utf8(b) == IF is_utf8(b, 1) THEN Ok(b) ELSE Err("FromUtf8Error")

HeaderStatement(kind, nm, value) == [kind |-> kind, name |-> nm, value |-> value]

\* The alternatives of header_statement's value, each with its terminator.
header_value(k, input) ==
    CASE k = 1 -> terminated(uint_v(input))
      [] k = 2 -> terminated(int_v(input))
      [] k = 3 -> terminated(float_v(input))
      [] k = 4 -> terminated(date_v(input))
      [] k = 5 -> terminated(map_res(binary_v(input), String_from_utf8))
      [] k = 6 -> terminated(binary_v(input))
      [] k = 7 -> terminated(name(input))
HeaderKinds == <<"Uint", "Int", "Float", "Date", "String", "Binary", "Named">>

\* alt_complete!: the result of the first alternative of order that succeeds.
RECURSIVE alt_header_value(_, _, _, _)
alt_header_value(order, i, nm, input) ==
    IF i > Len(order) THEN PErr
    ELSE Let(header_value(order[i], input), LAMBDA r :
             IF r.ok THEN POk(HeaderStatement(HeaderKinds[order[i]], nm, r.v), r.rest)
             ELSE alt_header_value(order, i + 1, nm, input))

\* name >> sep >> ":=" >> sep >> value
header_statement_in(order, input) ==
    Let(name(input), LAMBDA nm :
    IF ~nm.ok THEN PErr ELSE
    Let(tag(<<":", "=">>, sep(nm.rest).rest), LAMBDA t :
    IF ~t.ok THEN PErr
    ELSE alt_header_value(order, 1, nm.v, sep(t.rest).rest)))

\* header_statement with Int tried before Uint.
header_statement_IntFirst(input) == header_statement_in(<<2, 1, 3, 4, 5, 6, 7>>, input)

\* header_statement: Uint, Int, Float, Date, String, Binary, Named in turn.
header_statement(input) == header_statement_in(<<1, 2, 3, 4, 5, 6, 7>>, input)


----------------------------------------------------------------------------
(* Header statements given to header_statement: a name, ":=", a value, and  *)
(* a terminator, with separators between them and text after them.         *)

MaxDigits == 2

Digits(ds) == [i \in 1..Len(ds) |-> DigitChars[ds[i] + 1]]

\* The digit strings of at most n digits drawn from 0, 1 and 9.
ShortDigits(n) == UNION {[1..k -> {"0", "1", "9"}] : k \in 1..n}

\* i64::MAX, i64::MAX + 1, u64::MAX and u64::MAX + 1 in decimal, and a
\* number with leading zeros.
LongDigits ==
    {Digits(<<9, 2, 2, 3, 3, 7, 2, 0, 3, 6, 8, 5, 4, 7, 7, 5, 8, 0, 7>>),
     Digits(<<9, 2, 2, 3, 3, 7, 2, 0, 3, 6, 8, 5, 4, 7, 7, 5, 8, 0, 8>>),
     Digits(<<9, 2, 2, 3, 3, 7, 2, 0, 3, 6, 8, 5, 4, 7, 7, 5, 8, 0, 9>>),
     Digits(<<1, 8, 4, 4, 6, 7, 4, 4, 0, 7, 3, 7, 0, 9, 5, 5, 1, 6, 1, 5>>),
     Digits(<<1, 8, 4, 4, 6, 7, 4, 4, 0, 7, 3, 7, 0, 9, 5, 5, 1, 6, 1, 6>>),
     Digits(<<0, 0, 1, 8, 4, 4, 6, 7, 4, 4, 0, 7, 3, 7, 0, 9, 5, 5, 1, 6, 1, 5>>),
     Digits(<<0, 0, 7>>)}

\* Decimal literals: digits, with or without a leading '-'.
DecimalLiterals ==
    LET ds == ShortDigits(MaxDigits) \cup LongDigits
    IN  ds \cup {<<"-">> \o d : d \in ds}

\* Values that are not decimal literals.
OtherValues ==
    {<<>>, <<"-">>, <<"-", "-", "1">>, <<"1", "-">>, <<"+", "1">>,
     <<"1", ".", "5">>, <<"-", "1", "e", "3">>, <<".">>, <<"1", "e">>,
     <<"2", "0", "0", "1", "0", "2", "2", "8", "T", "2", "3", ":", "5", "9", ":", "5", "9">>,
     <<"2", "0", "0", "1", "0", "2", "2", "9", "T", "0", "0", ":", "0", "0", ":", "0", "0">>,
     <<"2", "0", "0", "4", "0", "2", "2", "9", "T", "0", "0", ":", "0", "0", ":", "0", "0", ".", "5">>,
     <<"\"", "a", "b", "\"">>, <<"\"", "a">>,
     <<"0", "x", "4", "1", "6", "2">>, <<"0", "x", "C", "3", "2", "8">>,
     <<"0", "x", "4", "1", "6">>,
     <<"D", "o", "c">>}

Names == {<<"F", "o", "o", "B", "a", "r">>, <<"_", "v", "2">>}
Separators ==
    {<<>>, <<" ">>, <<"/", "*", ";", "*", "/">>, <<"\t", "/", "/", "c", "\n", " ">>}
Terminators == {<<";">>, <<>>}
Tails == {<<>>, <<"\n", "B">>}

Statements ==
    [name : Names, sep1 : {<<>>, <<" ">>}, sep2 : {<<>>, <<"/", "/", "c", "\n", "\t">>},
     value : DecimalLiterals \cup OtherValues,
     sep3 : Separators, term : Terminators, tail : Tails]

\* The text of a statement.
Text(s) ==
    s.name \o s.sep1 \o <<":", "=">> \o s.sep2 \o s.value \o s.sep3 \o s.term \o s.tail

InitParse ==
    /\ data \in Statements
    /\ ret = NoCall
    /\ buf = <<>>
    /\ source = <<>>
    /\ loaded = <<>>
    /\ cmp = None

\* header_statement applied to the text of the statement.
ParseHeaderStatement ==
    /\ ret = NoCall
    /\ \E r \in {header_statement(Text(data))} :
           ret' = Call("header_statement", data, r)
    /\ UNCHANGED <<codecVars, readerVars>>

NextParse == ParseHeaderStatement

SpecParse == InitParse /\ [][NextParse]_vars

\* A decimal literal: an optional '-', then one digit or more.
HasMinus(v) == Len(v) > 0 /\ v[1] = "-"
IsDecimalLiteral(v) ==
    LET d == IF HasMinus(v) THEN Drop(v, 1) ELSE v
    IN  Len(d) > 0 /\ \A i \in 1..Len(d) : is_digit(d[i])

\* The number a decimal literal of at most thirty digits denotes.
RECURSIVE MagOf(_, _)
MagOf(d, n) == IF n = 0 THEN ZeroMag ELSE MagMul10Add(MagOf(d, n - 1), to_digit(d[n]))
NumberOf(v) ==
    IF HasMinus(v) THEN Signed(TRUE, MagOf(Drop(v, 1), Len(v) - 1))
    ELSE Signed(FALSE, MagOf(v, Len(v)))

Parsed == ret.fn = "header_statement"
Terminated == data.term = <<";">>

----------------------------------------------------------------------------
(* Peeking: PeekableReader::new on a source whose byte at position i is i,  *)
(* then advance and peek8 in any order.  data.src is the source given to    *)
(* new and data.total the sum of the amounts advanced by.                   *)

MaxSrc == 17
MaxAmount == 10

PeekSources == {[i \in 1..n |-> i - 1] : n \in 0..MaxSrc}

\* No advance has panicked.
PeekAlive == ret.fn = "advance" => ret.out.tag # "Panic"

InitPeek ==
    /\ \E bytes \in PeekSources :
          /\ data = [src |-> bytes, total |-> 0]
          /\ buf = new(bytes).buf
          /\ source = new(bytes).source
    /\ ret = NoCall
    /\ loaded = <<>>
    /\ cmp = None

\* advance(amount); ret.arg.before is the sum of the amounts before the call.
Advance ==
    /\ PeekAlive
    /\ \E amount \in 0..MaxAmount :
          /\ data.total + amount <= MaxSrc + MaxAmount
          /\ \E r \in {advance(buf, source, amount)} :
                /\ ret' = Call("advance", [amount |-> amount, before |-> data.total],
                               r.out)
                /\ buf' = r.buf
                /\ source' = r.source
                /\ data' = [data EXCEPT !.total = @ + amount]
    /\ UNCHANGED <<loaded, cmp>>

\* peek8(); ret.arg.prev is what the call before returned, if it was a peek8.
Peek8 ==
    /\ PeekAlive
    /\ ret' = Call("peek8",
                   [prev |-> IF ret.fn = "peek8" THEN Some(ret.out) ELSE None],
                   peek8(buf))
    /\ UNCHANGED <<codecVars, buf, source, loaded, cmp>>

NextPeek ==
    \/ Advance
    \/ Peek8

SpecPeek == InitPeek /\ [][NextPeek]_vars

\* The bytes of the source from position t on, and at most 8 of them.
Unread(t) == Drop(data.src, t)
Window(t) == Take(Unread(t), 8)

\* C24: as long as the amounts advanced by sum to T <= len(src), no advance
\* fails, the reader's window and what peek8 returns are exactly
\* src[T .. min(T + 8, len(src))], and a peek8 that follows a peek8 returns
\* the same bytes; the window never holds more than 8 bytes.
C24_PeekWindow ==
    /\ Len(buf) <= 8
    /\ data.total <= Len(data.src) =>
          /\ PeekAlive
          /\ peek8(buf) = Window(data.total)
          /\ ret.fn = "peek8" =>
                /\ ret.out = Window(data.total)
                /\ ret.arg.prev.tag = "Some" => ret.arg.prev.v = ret.out

\* Two peeks in a row after advances of less than 8 and of more than 8, the
\* end of the source inside the window.
C24_Witness ==
    /\ ret.fn = "peek8"
    /\ ret.arg.prev = Some(ret.out)
    /\ data.total = 12
    /\ Len(data.src) = 17
    /\ ret.out = <<12, 13, 14, 15, 16>>

\* C25: an advance by more than the number of unread bytes returns Ok(true)
\* and leaves peek8() empty, and so does every advance after it.
C25_AdvancePastEnd ==
    (/\ ret.fn = "advance"
     /\ ret.arg.before + ret.arg.amount > Len(data.src)) =>
        /\ ret.out = Ok(TRUE)
        /\ peek8(buf) = <<>>

----------------------------------------------------------------------------
(* Loading sizes one after the other: PeekableReader::new on a source, then *)
(* Size::load again and again.  data is the source given to new and loaded  *)
(* the Sizes returned so far.                                               *)

InitLoad ==
    /\ data \in Sources
    /\ buf = new(data).buf
    /\ source = new(data).source
    /\ ret = NoCall
    /\ loaded = <<>>
    /\ cmp = None

NextLoad == SizeLoad

SpecLoad == InitLoad /\ [][NextLoad]_vars

\* The sum of the widths of the Sizes in q.
RECURSIVE SumWidths(_)
SumWidths(q) ==
    IF q = <<>> THEN 0 ELSE get_width(q[1]) + SumWidths(SubSeq(q, 2, Len(q)))

\* The Sizes loaded before the last call.
LoadedBefore ==
    IF ret.fn = "Size::load" /\ ret.out.tag = "Ok"
    THEN SubSeq(loaded, 1, Len(loaded) - 1)
    ELSE loaded

\* C27: on a reader whose next byte b is not zero and that has at least
\* w = leading_zeros(b) + 1 bytes unread, Size::load returns Ok with a Size of
\* width w that holds exactly those w bytes (unknown for the all-ones, their
\* data bits otherwise) and leaves the reader w bytes further; after any
\* number of loads the reader stands at the sum of the widths returned.
C27_LoadConsumesOneVint ==
    Alive =>
        /\ buf \o source = Drop(data, SumWidths(loaded))
        /\ peek8(buf) = Take(Drop(data, SumWidths(loaded)), 8)
        /\ ret.fn = "Size::load" =>
              LET unread == Drop(data, SumWidths(LoadedBefore))
                  w == LeadingZeros8(unread[1]) + 1
                  bytes == Take(unread, w)
              IN  ~Malformed(unread) =>
                     /\ ret.out.tag = "Ok"
                     /\ loaded = Append(LoadedBefore, ret.out.v)
                     /\ get_width(ret.out.v) = w
                     /\ SizeBytes(ret.out.v) = bytes
                     /\ get_value(ret.out.v) =
                            IF AllOnes(bytes) THEN None ELSE Some(DataBits(bytes))
                     /\ buf \o source = Drop(unread, w)

\* Two loads, of widths 8 and 2, have left the reader 10 bytes on.
C27_Witness ==
    /\ Alive
    /\ Len(loaded) = 2
    /\ get_width(loaded[1]) = 8
    /\ get_width(loaded[2]) = 2
    /\ ret.out = Ok(loaded[2])
    /\ Len(data) - Len(buf \o source) = 10


\* C29: for two Sizes a and b, a == b holds exactly when partial_cmp(a, b) is
\* Some(Equal), that is when both a <= b and a >= b hold; a Size compared
\* with itself is <= and >= itself.
C29_OrderAgreesWithEq ==
    cmp.tag = "Some" =>
        LET c == cmp.v
        IN  /\ c.eq <=> (c.le /\ c.ge)
            /\ c.lhs = c.rhs => (c.le /\ c.ge)


----------------------------------------------------------------------------
(* Documents with children: the root's Id and size, then child elements     *)
(* `ID || SIZE || DATA` and the Id of what follows them.                    *)

MaxChildren == 2

\* Ids of child containers, and sizes with data of that many bytes: no data,
\* one byte that is an Id, one byte that is the head of nothing, and two
\* bytes that read as an Id and a size.
ElementIds == {<<\h81>>, <<\h42, \h86>>}
ElementBodies ==
    {<<\h80>>, <<\h81, \h82>>, <<\h81, 0>>, <<\h82, \h81, \h80>>, <<\h82, \h42, \h86>>}
Elements == {i \o b : i \in ElementIds, b \in ElementBodies}

RECURSIVE ElementSeqs(_)
ElementSeqs(n) ==
    IF n = 0 THEN {<<>>}
    ELSE LET S == ElementSeqs(n - 1) IN S \cup {q \o e : q \in S, e \in Elements}

\* What follows the children: another Id, or the end of the input.
Followers == {<<\h82>>, <<\h1A, \h45, \hDF, \hA2>>, <<>>}

ChildDocuments ==
    {RootBytes \o <<\hFF>> \o q \o f : q \in ElementSeqs(MaxChildren), f \in Followers}

InitChildren ==
    /\ data \in ChildDocuments
    /\ ret = NoCall
    /\ buf = <<>>
    /\ source = <<>>
    /\ loaded = <<>>
    /\ cmp = None

NextChildren ==
    \/ ReadDocument
    \/ ReadZeroOrManyChildren

SpecChildren == InitChildren /\ [][NextChildren]_vars

\* The number a size of at most two data bytes stands for.
SmallValue(bytes) == DataBits(bytes)[7] * 256 + DataBits(bytes)[8]

\* The input as consecutive children of Id nc, each `ID || SIZE || DATA` with
\* a known SIZE of at most two bytes and DATA of SIZE bytes, up to the first
\* valid Id that is not nc: the sizes of the children, in order.  ok is
\* FALSE where the input is not of that form.
RECURSIVE Children(_, _, _)
Children(rest, nc, sizes) ==
    IF ~StartsWithId(rest) THEN [ok |-> FALSE, sizes |-> sizes]
    ELSE IF FirstVint(rest) # nc THEN [ok |-> TRUE, sizes |-> sizes]
    ELSE LET r1 == Drop(rest, Len(nc))
             size == FirstVint(r1)
             r2 == Drop(r1, Len(size))
         IN  IF Malformed(r1) THEN [ok |-> FALSE, sizes |-> sizes]
             ELSE IF AllOnes(size) \/ Len(size) > 2 \/ SmallValue(size) > Len(r2)
             THEN [ok |-> FALSE, sizes |-> sizes]
             ELSE Children(Drop(r2, SmallValue(size)), nc, Append(sizes, size))

\* C28: before k >= 0 consecutive children of Id NC, each `ID || SIZE ||
\* DATA`, followed by a different Id, read_zero_or_many_children_by_container
\* returns exactly k readers, the i-th with the size of the i-th child.
C28_OneReaderPerChild ==
    ret.fn = "read_zero_or_many_children_by_container" =>
        LET c == Children(ret.arg.rest, SizeBytes(ret.arg.nc.data), <<>>)
        IN  c.ok =>
               /\ ret.out.tag = "Ok"
               /\ Len(ret.out.v) = Len(c.sizes)
               /\ \A i \in 1..Len(c.sizes) :
                     SizeBytes(ret.out.v[i].length) = c.sizes[i]


----------------------------------------------------------------------------
(* Hexadecimal literals given to binary_v and to from_hex: "0x", then       *)
(* hexadecimal digits and whitespace, then what follows the literal.        *)

MaxHex == 4

HexChars == {"F", "a", "0", " ", "\t", "\n"}
HexLiterals == UNION {[1..n -> HexChars] : n \in 0..MaxHex}

InitBinary ==
    /\ data \in [lit : HexLiterals, tail : {<<>>, <<";">>}]
    /\ ret = NoCall
    /\ buf = <<>>
    /\ source = <<>>
    /\ loaded = <<>>
    /\ cmp = None

\* binary_v applied to "0x", the literal and what follows it.
ParseBinaryV ==
    /\ ret = NoCall
    /\ \E r \in {binary_v(<<"0", "x">> \o data.lit \o data.tail)} :
           ret' = Call("binary_v", data, r)
    /\ UNCHANGED <<codecVars, readerVars>>

\* from_hex applied to the literal.
FromHex ==
    /\ ret = NoCall
    /\ ret' = Call("from_hex", data, from_hex(data.lit))
    /\ UNCHANGED <<codecVars, readerVars>>

NextBinary ==
    \/ ParseBinaryV
    \/ FromHex

SpecBinary == InitBinary /\ [][NextBinary]_vars

\* The hexadecimal digits of a literal, in order.
RECURSIVE HexDigitsOf(_)
HexDigitsOf(lit) ==
    IF lit = <<>> THEN <<>>
    ELSE (IF is_hex_digit(lit[1]) THEN <<lit[1]>> ELSE <<>>)
             \o HexDigitsOf(SubSeq(lit, 2, Len(lit)))

\* The bytes an even number of digits stand for, pair by pair.
PairBytes(ds) == [k \in 1..(Len(ds) \div 2) |-> HexVal(ds[2 * k - 1]) * 16 + HexVal(ds[2 * k])]

\* Digits with whitespace between them only: the literal begins and ends
\* with a digit.
InteriorWhitespace(lit) ==
    Len(lit) > 0 /\ is_hex_digit(lit[1]) /\ is_hex_digit(lit[Len(lit)])

\* C23: binary_v parses "0x" and hexadecimal digits with whitespace between
\* them to the bytes of all the digit pairs in order, the whitespace skipped
\* and what follows the literal left over, when the digits are even in
\* number, and rejects the literal when they are odd in number.
C23_HexInteriorWhitespace ==
    (ret.fn = "binary_v" /\ InteriorWhitespace(ret.arg.lit)) =>
        LET ds == HexDigitsOf(ret.arg.lit)
        IN  IF Len(ds) % 2 = 0
            THEN ret.out = POk(PairBytes(ds), ret.arg.tail)
            ELSE ret.out = PErr


----------------------------------------------------------------------------
(* ebml_macros parsers/mod.rs: the property clauses of a type declaration   *)
(* and dtype.                                                               *)

Property(prop, v) == [prop |-> prop, v |-> v]

\* The string of a clause keyword, as characters.
KwDef == <<"d", "e", "f">>
KwRange == <<"r", "a", "n", "g", "e">>

\* tuple!(tag!(kw), sep, tag!(":"), sep)
clause_open(kw, input) ==
    Let(tag(kw, input), LAMBDA k :
        IF ~k.ok THEN PErr
        ELSE Let(tag(<<":">>, sep(k.rest).rest), LAMBDA c :
                 IF ~c.ok THEN PErr ELSE sep(c.rest)))

\* delimited!(tuple!(tag!("def"), sep, tag!(":"), sep), map!(value, ctor),
\*            pair!(sep, tag!(";")))
def_clause(value(_), ctor, input) ==
    Let(clause_open(KwDef, input), LAMBDA o :
        IF ~o.ok THEN PErr
        ELSE Let(terminated(value(o.rest)), LAMBDA v :
                 IF v.ok THEN POk(Property(ctor, v.v), v.rest) ELSE PErr))

string_v(input) == map_res(binary_v(input), String_from_utf8)

int_def(input) == def_clause(int_v, "IntDefault", input)
uint_def(input) == def_clause(uint_v, "UintDefault", input)
float_def(input) == def_clause(float_v, "FloatDefault", input)
date_def(input) == def_clause(date_v, "DateDefault", input)
string_def(input) == def_clause(string_v, "StringDefault", input)
binary_def(input) == def_clause(binary_v, "BinaryDefault", input)

\* delimited!(sep, tag!(","), sep)
comma(input) ==
    Let(tag(<<",">>, sep(input).rest), LAMBDA c :
        IF c.ok THEN sep(c.rest) ELSE PErr)

\* separated_nonempty_list_complete!(comma, item): the items found so far
\* are returned when the separator or the item after it fails.
RECURSIVE more_items(_, _, _)
more_items(item(_), input, found) ==
    Let(comma(input), LAMBDA c :
        IF ~c.ok THEN POk(found, input)
        ELSE Let(item(c.rest), LAMBDA i :
                 IF ~i.ok THEN POk(found, input)
                 ELSE more_items(item, i.rest, Append(found, i.v))))
separated_nonempty_list(item(_), input) ==
    Let(item(input), LAMBDA i :
        IF ~i.ok THEN PErr ELSE more_items(item, i.rest, <<i.v>>))

\* The items of a range.
Single_(v) == [item |-> "Single", v |-> v]
From_(start) == [item |-> "From", start |-> start]
To_(end) == [item |-> "To", end |-> end]
Bounded_(start, end) == [item |-> "Bounded", start |-> start, end |-> end]

DotDot == <<".", ".">>

\* The alternatives of an item of int_range, uint_range and date_range:
\* start..end | start.. | ..end | single, the last two where the range has
\* them.
dotted_item(value(_), has_to, has_single, input) ==
    Let(value(input), LAMBDA s :
    Let(IF s.ok THEN tag(DotDot, s.rest) ELSE PErr, LAMBDA d :
    Let(IF d.ok THEN value(d.rest) ELSE PErr, LAMBDA e :
        IF e.ok THEN POk(Bounded_(s.v, e.v), e.rest)
        ELSE IF d.ok THEN POk(From_(s.v), d.rest)
        ELSE Let(IF has_to THEN tag(DotDot, input) ELSE PErr, LAMBDA t :
             Let(IF t.ok THEN value(t.rest) ELSE PErr, LAMBDA te :
                 IF te.ok THEN POk(To_(te.v), te.rest)
                 ELSE IF has_single /\ s.ok THEN POk(Single_(s.v), s.rest)
                 ELSE PErr)))))

int_range_item(input) == dotted_item(int_v, TRUE, TRUE, input)
uint_range_item(input) == dotted_item(uint_v, FALSE, TRUE, input)
date_range_item(input) == dotted_item(date_v, TRUE, FALSE, input)

\* map!(opt!(tag!("=")), |x| x.is_some())
opt_eq(input) ==
    Let(tag(<<"=">>, input), LAMBDA e :
        IF e.ok THEN POk(TRUE, e.rest) ELSE POk(FALSE, input))

\* The alternatives of an item of float_range:
\* start<[=]..<[=]end | <[=]end | >[=]start.
float_bounded_item(input) ==
    Let(float_v(input), LAMBDA s :
    Let(IF s.ok THEN tag(<<"<">>, s.rest) ELSE PErr, LAMBDA l1 :
    Let(IF l1.ok THEN opt_eq(l1.rest) ELSE PErr, LAMBDA is :
    Let(IF is.ok THEN tag(DotDot, is.rest) ELSE PErr, LAMBDA d :
    Let(IF d.ok THEN tag(<<"<">>, d.rest) ELSE PErr, LAMBDA l2 :
    Let(IF l2.ok THEN opt_eq(l2.rest) ELSE PErr, LAMBDA ie :
    Let(IF ie.ok THEN float_v(ie.rest) ELSE PErr, LAMBDA e :
        IF e.ok
        THEN POk([item |-> "Bounded", start |-> s.v, include_start |-> is.v,
                  end |-> e.v, include_end |-> ie.v], e.rest)
        ELSE PErr)))))))

float_to_item(input) ==
    Let(tag(<<"<">>, input), LAMBDA lt :
    Let(IF lt.ok THEN opt_eq(lt.rest) ELSE PErr, LAMBDA te :
    Let(IF te.ok THEN float_v(te.rest) ELSE PErr, LAMBDA tv :
        IF tv.ok
        THEN POk([item |-> "To", end |-> tv.v, include_end |-> te.v], tv.rest)
        ELSE PErr)))

float_from_item(input) ==
    Let(tag(<<">">>, input), LAMBDA gt :
    Let(IF gt.ok THEN opt_eq(gt.rest) ELSE PErr, LAMBDA fe :
    Let(IF fe.ok THEN float_v(fe.rest) ELSE PErr, LAMBDA fv :
        IF fv.ok
        THEN POk([item |-> "From", start |-> fv.v,
                  include_start |-> fe.v], fv.rest)
        ELSE PErr)))

float_range_item(input) ==
    Let(float_bounded_item(input), LAMBDA b :
        IF b.ok THEN b
        ELSE Let(float_to_item(input), LAMBDA t :
                 IF t.ok THEN t ELSE float_from_item(input)))

\* delimited!(tuple!(tag!("range"), sep, tag!(":"), sep),
\*            map!(separated_nonempty_list_complete!(.., item), ctor),
\*            pair!(sep, tag!(";")))
range_clause(item(_), ctor, input) ==
    Let(clause_open(KwRange, input), LAMBDA o :
        IF ~o.ok THEN PErr
        ELSE Let(terminated(separated_nonempty_list(item, o.rest)), LAMBDA l :
                 IF l.ok THEN POk(Property(ctor, l.v), l.rest) ELSE PErr))

int_range(input) == range_clause(int_range_item, "IntRange", input)
uint_range(input) == range_clause(uint_range_item, "UintRange", input)
float_range(input) == range_clause(float_range_item, "FloatRange", input)
date_range(input) == range_clause(date_range_item, "DateRange", input)

\* UintRangeItem::to_binary_range_item and to_string_range_item: the item
\* where its ends are at most max (0xFF, 0x10FFFF), None otherwise.
MaxByte == Dec(FALSE, <<0, 0, 0, 0, 255>>)
MaxCodePoint == Dec(FALSE, <<0, 0, 0, 1, 114111>>)
to_range_item(self, max) ==
    IF self.item = "Single" /\ DecLe(self.v, max) THEN Some(self)
    ELSE IF self.item = "From" /\ DecLe(self.start, max) THEN Some(self)
    ELSE IF self.item = "Bounded" /\ DecLe(self.start, max) /\ DecLe(self.end, max)
    THEN Some(self)
    ELSE None
to_binary_range_item(self) == to_range_item(self, MaxByte)
to_string_range_item(self) == to_range_item(self, MaxCodePoint)

\* map_opt!(uint_range, |prop| ur.iter().map(convert).collect::<Option<Vec>>()
\*                                 .map(ctor))
converted_range(convert(_), ctor, input) ==
    Let(uint_range(input), LAMBDA u :
        IF ~u.ok THEN PErr
        ELSE IF \E i \in 1..Len(u.v.v) : convert(u.v.v[i]) = None THEN PErr
        ELSE POk(Property(ctor, [i \in 1..Len(u.v.v) |-> convert(u.v.v[i]).v]), u.rest))

string_range(input) == converted_range(to_string_range_item, "StringRange", input)
binary_range(input) == converted_range(to_binary_range_item, "BinaryRange", input)


NewType(kind, nm, default, range) ==
    [kind |-> kind, name |-> nm, default |-> default, range |-> range]

\* The properties NewType::update stores: the variant each belongs to and
\* the field it sets.
PropertyFields ==
    [IntDefault |-> <<"Int", "default">>, IntRange |-> <<"Int", "range">>,
     UintDefault |-> <<"Uint", "default">>, UintRange |-> <<"Uint", "range">>,
     FloatDefault |-> <<"Float", "default">>, FloatRange |-> <<"Float", "range">>,
     DateDefault |-> <<"Date", "default">>, DateRange |-> <<"Date", "range">>,
     StringDefault |-> <<"String", "default">>, StringRange |-> <<"String", "range">>,
     BinaryDefault |-> <<"Binary", "default">>, BinaryRange |-> <<"Binary", "range">>]

\* unreachable!()
unreachable == Panic

\* NewType::update in which a range clause also forgets the default.
update_RangeClearsDefault(self, val) ==
    IF val.prop \notin DOMAIN PropertyFields THEN unreachable
    ELSE IF self.kind # PropertyFields[val.prop][1] THEN unreachable
    ELSE IF PropertyFields[val.prop][2] = "default"
    THEN [self EXCEPT !.default = Some(val.v)]
    ELSE [self EXCEPT !.range = Some(val.v), !.default = None]

\* NewType::update: a default or a range of the variant's own kind is
\* stored, anything else is unreachable!().
update(self, val) ==
    IF val.prop \notin DOMAIN PropertyFields THEN unreachable
    ELSE IF self.kind # PropertyFields[val.prop][1] THEN unreachable
    ELSE IF PropertyFields[val.prop][2] = "default"
    THEN [self EXCEPT !.default = Some(val.v)]
    ELSE [self EXCEPT !.range = Some(val.v)]

\* update_newtype_with_property
update_newtype_with_property(nt, p) == update(nt, p)

\* A parser that panicked.
PPanic == [ok |-> FALSE, panic |-> TRUE]

\* dtype_param_open: delimited!(sep, tag!("["), sep)
dtype_param_open(input) ==
    Let(tag(<<"[">>, sep(input).rest), LAMBDA o :
        IF o.ok THEN POk(o.v, sep(o.rest).rest) ELSE PErr)

\* dtype_param_close: sep >> tag!("]") >> sep >> opt!(tag!(";"))
dtype_param_close(input) ==
    Let(tag(<<"]">>, sep(input).rest), LAMBDA c :
        IF ~c.ok THEN PErr
        ELSE Let(sep(c.rest).rest, LAMBDA r :
             Let(tag(<<";">>, r), LAMBDA t :
                 POk("()", IF t.ok THEN t.rest ELSE r))))

\* fold_many1!(delimited!(sep, clause, sep), init, update_newtype_with_property):
\* the clauses are folded until one fails; none at all is an error.
RECURSIVE fold_many1(_, _, _, _)
fold_many1(clause(_), input, nt, n) ==
    Let(clause(sep(input).rest), LAMBDA c :
        IF ~c.ok THEN (IF n = 0 THEN PErr ELSE POk(nt, input))
        ELSE Let(update_newtype_with_property(nt, c.v), LAMBDA u :
                 IF u = unreachable THEN PPanic
                 ELSE fold_many1(clause, sep(c.rest).rest, u, n + 1)))

\* delimited!(dtype_param_open, fold_many1!(..), dtype_param_close)
properties(clause(_), init, input) ==
    Let(dtype_param_open(input), LAMBDA o :
        IF ~o.ok THEN PErr
        ELSE Let(fold_many1(clause, o.rest, init, 0), LAMBDA f :
                 IF ~f.ok THEN f
                 ELSE Let(dtype_param_close(f.rest), LAMBDA c :
                          IF c.ok THEN POk(f.v, c.rest) ELSE PErr)))

\* alt_complete!(range | def)
Either(a, b) == IF a.ok THEN a ELSE b

int_properties(nm, input) ==
    properties(LAMBDA i : Either(int_range(i), int_def(i)),
               NewType("Int", nm, None, None), input)
uint_properties(nm, input) ==
    properties(LAMBDA i : Either(uint_range(i), uint_def(i)),
               NewType("Uint", nm, None, None), input)
float_properties(nm, input) ==
    properties(LAMBDA i : Either(float_range(i), float_def(i)),
               NewType("Float", nm, None, None), input)
date_properties(nm, input) ==
    properties(LAMBDA i : Either(date_range(i), date_def(i)),
               NewType("Date", nm, None, None), input)
string_properties(nm, input) ==
    properties(LAMBDA i : Either(string_range(i), string_def(i)),
               NewType("String", nm, None, None), input)
binary_properties(nm, input) ==
    properties(LAMBDA i : Either(binary_range(i), binary_def(i)),
               NewType("Binary", nm, None, None), input)

\* type_: the keywords in the order int, uint, float, string, date, binary,
\* container, then any name.
TypeKeywords ==
    <<<<"Int", <<"i", "n", "t">>>>,
      <<"Uint", <<"u", "i", "n", "t">>>>,
      <<"Float", <<"f", "l", "o", "a", "t">>>>,
      <<"String", <<"s", "t", "r", "i", "n", "g">>>>,
      <<"Date", <<"d", "a", "t", "e">>>>,
      <<"Binary", <<"b", "i", "n", "a", "r", "y">>>>,
      <<"Container", <<"c", "o", "n", "t", "a", "i", "n", "e", "r">>>>>>
RECURSIVE type_from(_, _)
type_from(k, input) ==
    IF k > Len(TypeKeywords)
    THEN Let(name(input), LAMBDA n :
             IF n.ok THEN POk([type |-> "Name", v |-> n.v], n.rest) ELSE PErr)
    ELSE Let(tag(TypeKeywords[k][2], input), LAMBDA t :
             IF t.ok THEN POk([type |-> TypeKeywords[k][1]], t.rest)
             ELSE type_from(k + 1, input))
type_(input) == type_from(1, input)

\* with_or_without_properties, except that a body the properties parser
\* rejects is passed over as if the declaration had none.
with_or_without_properties_IgnoresBody(props, kind, nm, input) ==
    IF props.ok \/ props = PPanic THEN props
    ELSE POk(NewType(kind, nm, None, None), input)

\* alt!(apply!(x_properties, name) |
\*      value!(NewType::X { name, default: None, range: None }, not!(dtype_param_open)))
with_or_without_properties(props, kind, nm, input) ==
    IF props.ok \/ props = PPanic THEN props
    ELSE IF dtype_param_open(input).ok THEN PErr
    ELSE POk(NewType(kind, nm, None, None), input)

\* dtype: name >> sep >> ":=" >> switch!(delimited!(sep, type_, sep), ..)
dtype(input) ==
    Let(name(input), LAMBDA nm :
    IF ~nm.ok THEN PErr ELSE
    Let(tag(<<":", "=">>, sep(nm.rest).rest), LAMBDA a :
    IF ~a.ok THEN PErr ELSE
    Let(type_(sep(a.rest).rest), LAMBDA t :
    IF ~t.ok THEN PErr ELSE
    Let(sep(t.rest).rest, LAMBDA r :
        CASE t.v.type = "Int" ->
                 with_or_without_properties(int_properties(nm.v, r), "Int", nm.v, r)
          [] t.v.type = "Uint" ->
                 with_or_without_properties(uint_properties(nm.v, r), "Uint", nm.v, r)
          [] t.v.type = "Float" ->
                 with_or_without_properties(float_properties(nm.v, r), "Float", nm.v, r)
          [] t.v.type = "Date" ->
                 with_or_without_properties(date_properties(nm.v, r), "Date", nm.v, r)
          [] t.v.type = "String" ->
                 with_or_without_properties(string_properties(nm.v, r), "String", nm.v, r)
          [] t.v.type = "Binary" ->
                 with_or_without_properties(binary_properties(nm.v, r), "Binary", nm.v, r)
          [] OTHER -> POk(NewType("Int", nm.v, None, None), r)))))


----------------------------------------------------------------------------
(* Type declarations given to dtype: a name, ":=", a type and, unless the   *)
(* body is absent, "[", clauses and "]".                                    *)

MaxClauses == 2

\* Per value type: its keyword, two range clauses, two def clauses and two
\* clauses that are not clauses of the type.
ClauseTexts ==
    [Int |->
        [range |-> <<<<"r", "a", "n", "g", "e", ":", " ", "-", "5", ".", ".", "1", "0", ";">>,
                     <<"r", "a", "n", "g", "e", ":", ".", ".", "0", ",", " ", "3", " ", ",", "7", ".", ".", " ", ";">>>>,
         def |-> <<<<"d", "e", "f", ":", " ", "-", "1", ";">>,
                   <<"d", "e", "f", ":", "4", "2", " ", ";">>>>,
         bad |-> <<<<"d", "e", "f", ":", " ", "1", ".", "5", ";">>,
                   <<"r", "a", "n", "g", "e", ":", " ", "1", ".", ".", "x", ";">>>>],
     Uint |->
        [range |-> <<<<"r", "a", "n", "g", "e", ":", " ", "1", ".", ".", "5", ";">>,
                     <<"r", "a", "n", "g", "e", ":", "0", ",", "1", "0", ".", ".", ";">>>>,
         def |-> <<<<"d", "e", "f", ":", " ", "3", ";">>,
                   <<"d", "e", "f", ":", "0", " ", ";">>>>,
         bad |-> <<<<"d", "e", "f", ":", " ", "-", "3", ";">>,
                   <<"r", "a", "n", "g", "e", ":", " ", ".", ".", "5", ";">>>>],
     Float |->
        [range |-> <<<<"r", "a", "n", "g", "e", ":", " ", "0", ".", "5", "<", "=", ".", ".", "<", "1", "e", "3", ";">>,
                     <<"r", "a", "n", "g", "e", ":", " ", "<", "0", ".", "0", ",", " ", ">", "=", "1", ".", "5", ";">>>>,
         def |-> <<<<"d", "e", "f", ":", " ", "1", ".", "2", "5", "e", "-", "2", ";">>,
                   <<"d", "e", "f", ":", "-", "1", " ", ";">>>>,
         bad |-> <<<<"d", "e", "f", ":", " ", "1", "e", ";">>,
                   <<"r", "a", "n", "g", "e", ":", " ", "1", ".", "0", ";">>>>],
     Date |->
        [range |-> <<<<"r", "a", "n", "g", "e", ":", " ", "2", "0", "0", "1", "0", "1", "0", "1", "T", "0", "0", ":", "0", "0", ":", "0", "0", ".", ".", "2", "0", "0", "2", "0", "1", "0", "1", "T", "0", "0", ":", "0", "0", ":", "0", "0", ";">>,
                     <<"r", "a", "n", "g", "e", ":", " ", ".", ".", "0", ",", " ", "5", ".", ".", ";">>>>,
         def |-> <<<<"d", "e", "f", ":", " ", "2", "0", "1", "4", "0", "2", "0", "3", "T", "0", "0", ":", "1", "2", ":", "1", "4", ".", "5", ";">>,
                   <<"d", "e", "f", ":", "1", "0", "0", "0", " ", ";">>>>,
         bad |-> <<<<"d", "e", "f", ":", " ", "2", "0", "1", "4", "0", "2", "3", "0", "T", "0", "0", ":", "0", "0", ":", "0", "0", ";">>,
                   <<"r", "a", "n", "g", "e", ":", " ", "5", ";">>>>],
     String |->
        [range |-> <<<<"r", "a", "n", "g", "e", ":", " ", "3", "2", ".", ".", "1", "2", "6", ";">>,
                     <<"r", "a", "n", "g", "e", ":", "9", ",", " ", "6", "5", ".", ".", ";">>>>,
         def |-> <<<<"d", "e", "f", ":", " ", "\"", "a", "b", "\"", ";">>,
                   <<"d", "e", "f", ":", "0", "x", "4", "1", "6", "2", " ", ";">>>>,
         bad |-> <<<<"d", "e", "f", ":", " ", "0", "x", "C", "3", "2", "8", ";">>,
                   <<"r", "a", "n", "g", "e", ":", " ", "1", "1", "1", "4", "1", "1", "2", ".", ".", ";">>>>],
     Binary |->
        [range |-> <<<<"r", "a", "n", "g", "e", ":", " ", "0", ".", ".", "2", "5", "5", ";">>,
                     <<"r", "a", "n", "g", "e", ":", "1", ",", " ", "1", "2", "8", ".", ".", ";">>>>,
         def |-> <<<<"d", "e", "f", ":", " ", "0", "x", "F", "a", "d", "e", ";">>,
                   <<"d", "e", "f", ":", "\"", "a", "\"", " ", ";">>>>,
         bad |-> <<<<"d", "e", "f", ":", " ", "0", "x", "F", "a", "d", ";">>,
                   <<"r", "a", "n", "g", "e", ":", " ", "2", "5", "6", ";">>>>]]

\* The type as written in a declaration: the six value types, container,
\* and the name of another type.
Keywords ==
    [Int |-> <<"i", "n", "t">>,
     Uint |-> <<"u", "i", "n", "t">>,
     Float |-> <<"f", "l", "o", "a", "t">>,
     Date |-> <<"d", "a", "t", "e">>,
     String |-> <<"s", "t", "r", "i", "n", "g">>,
     Binary |-> <<"b", "i", "n", "a", "r", "y">>,
     Container |-> <<"c", "o", "n", "t", "a", "i", "n", "e", "r">>,
     Name |-> <<"O", "t", "h", "e", "r">>]
ValueTypes == DOMAIN ClauseTexts
DeclaredTypes == DOMAIN Keywords

\* The clauses of a body: each a range, a def or a bad clause; "absent" where
\* the declaration has no body.
Bodies == UNION {[1..n -> {"range", "def", "bad"}] : n \in 0..MaxClauses}

Gaps == {<<>>, <<" ">>, <<"\n", "/", "/", "c", "\n">>}
DeclTails == {<<>>, <<";">>, <<"\n", "B", " ", ":", "=", " ", "i", "n", "t">>}

\* The clauses of a declaration of a container or of a named type are
\* written as those of an int.
ClauseType(type) == IF type \in ValueTypes THEN type ELSE "Int"

\* bodied tells whether the declaration has a '[' body; body is the clauses
\* in it.
Declarations ==
    [name : {<<"F", "o", "o">>}, type : DeclaredTypes, bodied : {TRUE}, body : Bodies,
     pick : 1..2, gap : Gaps, tail : DeclTails]
        \cup [name : {<<"F", "o", "o">>}, type : DeclaredTypes, bodied : {FALSE},
              body : {<<>>}, pick : 1..2, gap : Gaps, tail : DeclTails]

RECURSIVE BodyText(_, _, _)
BodyText(d, body, i) ==
    IF i > Len(body) THEN <<>>
    ELSE d.gap \o ClauseTexts[ClauseType(d.type)][body[i]][d.pick] \o BodyText(d, body, i + 1)

\* The text of declaration d with the clauses body.
DeclText(d, body) ==
    d.name \o <<" ", ":", "=", " ">> \o Keywords[d.type]
        \o (IF ~d.bodied THEN <<>>
            ELSE <<" ", "[">> \o BodyText(d, body, 1) \o d.gap \o <<"]">>)
        \o d.tail

Reversed(body) == [i \in 1..Len(body) |-> body[Len(body) + 1 - i]]

InitDtype ==
    /\ data \in Declarations
    /\ ret = NoCall
    /\ buf = <<>>
    /\ source = <<>>
    /\ loaded = <<>>
    /\ cmp = None

\* dtype applied to the declaration.
ParseDtype ==
    /\ ret = NoCall
    /\ \E r \in {dtype(DeclText(data, data.body))} :
           ret' = Call("dtype", data, r)
    /\ UNCHANGED <<codecVars, readerVars>>

\* dtype applied to the declaration and to the declaration with its clauses
\* in the opposite order.
ParseReordered ==
    /\ ret = NoCall
    /\ data.bodied
    /\ \E r \in {[written |-> dtype(DeclText(data, data.body)),
                  reversed |-> dtype(DeclText(data, Reversed(data.body)))]} :
           ret' = Call("dtype, reordered", data, r)
    /\ UNCHANGED <<codecVars, readerVars>>

NextDtype ==
    \/ ParseDtype
    \/ ParseReordered

SpecDtype == InitDtype /\ [][NextDtype]_vars

\* What dtype leaves of the tail: the separators before it skipped, and a
\* ';' after a body taken.
LeftOf(d) ==
    IF d.bodied /\ d.tail = <<";">> THEN <<>> ELSE sep(d.tail).rest

\* C21: for each of the six value types, a declaration whose body holds one
\* range clause and one def clause parses, and parses to the same NewType,
\* of the declared kind with a default and a range, whichever clause is
\* written first.
C21_ClauseOrder ==
    (/\ ret.fn = "dtype, reordered"
     /\ ret.arg.type \in ValueTypes
     /\ ret.arg.body \in {<<"range", "def">>, <<"def", "range">>}) =>
        /\ ret.out.written.ok
        /\ ret.out.written = ret.out.reversed
        /\ ret.out.written.v.kind = ret.arg.type
        /\ ret.out.written.v.name = ret.arg.name
        /\ ret.out.written.v.default.tag = "Some"
        /\ ret.out.written.v.range.tag = "Some"
        /\ ret.out.written.rest = LeftOf(ret.arg)

\* A date with range first, parsed as with def first.
C21_Witness ==
    /\ ret.fn = "dtype, reordered"
    /\ ret.arg.type = "Date"
    /\ ret.arg.body = <<"range", "def">>
    /\ ret.arg.pick = 1
    /\ ret.out.reversed.ok
    /\ ret.out.reversed.v.kind = "Date"
    /\ ret.out.reversed.v.default.tag = "Some"
    /\ Len(ret.out.reversed.v.range.v) = 1

\* C22: for each of the six value types, dtype accepts a declaration without
\* a body and returns the NewType of that kind with default None and range
\* None; where a body is present and is empty or holds a clause that does
\* not parse, dtype returns an error.
C22_BodyOptionalNotIgnored ==
    (ret.fn = "dtype" /\ ret.arg.type \in ValueTypes) =>
        /\ ~ret.arg.bodied =>
              ret.out = POk(NewType(ret.arg.type, ret.arg.name, None, None),
                            LeftOf(ret.arg))
        /\ (/\ ret.arg.bodied
            /\ \/ ret.arg.body = <<>>
               \/ \E i \in 1..Len(ret.arg.body) : ret.arg.body[i] = "bad") =>
              ~ret.out.ok

\* A string declared with a def and then a range beyond the code points.
C22_Witness ==
    /\ ret.fn = "dtype"
    /\ ret.arg.type = "String"
    /\ ret.arg.body = <<"def", "bad">>
    /\ ret.arg.pick = 2
    /\ ret.out = PErr

\* C30: the NewType dtype returns is of the kind declared; a declaration of
\* a container or of a named type is never returned as NewType::Int.
C30_DeclaredKind ==
    (ret.fn = "dtype" /\ ret.out.ok) =>
        IF ret.arg.type \in ValueTypes
        THEN ret.out.v.kind = ret.arg.type
        ELSE ret.out.v.kind # "Int"

=============================================================================
